---- MODULE Spec2Model ----
(***************************************************************************)
(* StoryForge backend: the tool executor (tools/story_tools.py), the       *)
(* generation orchestrator (services/llm_service.py), the audio and image  *)
(* services, the story database and the HTTP routes (app.py).              *)
(*                                                                         *)
(* Python text that the code lower-cases is a sequence of one-character    *)
(* strings, so that str.lower() is computed character by character; text   *)
(* that is only stored, compared or echoed is a TLA+ string.               *)
(***************************************************************************)
EXTENDS Integers, Sequences, FiniteSets, TLC

VARIABLES
  \* one handler of StoryTools called directly (ToolSpec)
  tool_input,      \* the call: tool and arguments
  tool_rnd,        \* what the random generator returned during the call
  tool_output,     \* what the handler returned or raised
  \* LLMService and one generate_story call at a time (Spec)
  system_prompt,   \* self.system_prompt
  pc,              \* where generate_story is
  args,            \* its arguments: prompt, history, model, genre, tools
  messages,        \* its local list `messages`
  response,        \* the first completion's response
  tool_responses,  \* _handle_tool_calls' local list `tool_responses`
  outcome,         \* the dict it returned
  completions,     \* the completion calls the provider received, in order
  executions,      \* the execute_tool calls the executor received, in order
  \* the Flask application serving one request at a time (AppSpec)
  credentials,     \* the API keys of the environment the services were built in
  stories,         \* the rows of the stories table, by id
  story_seq,       \* the largest id the stories table has handed out
  http_pc,         \* where the request in progress is
  http_request,    \* the request in progress
  http_response,   \* the response the route returned
  provider_calls,  \* the provider calls made for the request, in order
  db_writes,       \* the statements that changed the database during the request
  stream_chunks,   \* the chunks the provider stream has yielded
  stream_events,   \* the events written to the client of the stream
  \* generate_story calls in progress at once on the one LLMService (ConcSpec)
  calls,           \* by caller: where the call is and its locals
  \* the SQLite database behind Database, its methods called directly (DbSpec)
  stamps,          \* created_at and updated_at of the stories rows, by id
  clock,           \* the second CURRENT_TIMESTAMP and datetime.now() read
  images,          \* the rows of the images table, by id
  image_seq,       \* the largest id the images table has handed out
  chat_history,    \* the rows of the chat_history table, by id
  chat_seq,        \* the largest id the chat_history table has handed out
  foreign_keys,    \* PRAGMA foreign_keys of a new connection (the build's default)
  saved_ids,       \* the ids save_story has returned, in order
  db_result        \* the method called last, its arguments and what it returned

tool_vars == <<tool_input, tool_rnd, tool_output>>
llm_vars == <<system_prompt, pc, args, messages, response, tool_responses,
              outcome, completions, executions>>
app_vars == <<credentials, stories, story_seq, http_pc, http_request, http_response,
              provider_calls, db_writes, stream_chunks, stream_events>>
conc_vars == <<calls>>
db_vars == <<stamps, clock, images, image_seq, chat_history, chat_seq, foreign_keys,
             saved_ids, db_result>>
vars == <<tool_vars, llm_vars, app_vars, conc_vars, db_vars>>

Min(a, b) == IF a < b THEN a ELSE b

(***************************************************************************)
(* Python values carried by a decoded arguments mapping.                   *)
(***************************************************************************)
None == [type |-> "NoneType"]
Str(chars) == [type |-> "str", chars |-> chars]
IsStr(v) == v.type = "str"
\* `if x:` on an optional text argument
Truthy(v) == IsStr(v) /\ v.chars # <<>>

\* the lower-case form of each upper-case ASCII letter
ascii_lowercase ==
  "A" :> "a" @@ "B" :> "b" @@ "C" :> "c" @@ "D" :> "d" @@ "E" :> "e" @@ "F" :> "f"
  @@ "G" :> "g" @@ "H" :> "h" @@ "I" :> "i" @@ "J" :> "j" @@ "K" :> "k" @@ "L" :> "l"
  @@ "M" :> "m" @@ "N" :> "n" @@ "O" :> "o" @@ "P" :> "p" @@ "Q" :> "q" @@ "R" :> "r"
  @@ "S" :> "s" @@ "T" :> "t" @@ "U" :> "u" @@ "V" :> "v" @@ "W" :> "w" @@ "X" :> "x"
  @@ "Y" :> "y" @@ "Z" :> "z"

LowerChar(c) == IF c \in DOMAIN ascii_lowercase THEN ascii_lowercase[c] ELSE c

\* str.lower()
lower(chars) == [i \in DOMAIN chars |-> LowerChar(chars[i])]

\* the text a character sequence spells
RECURSIVE Text(_)
Text(chars) == IF chars = <<>> THEN "" ELSE Head(chars) \o Text(Tail(chars))

(***************************************************************************)
(* StoryTools.__init__: the three knowledge tables.  A dict whose key      *)
(* order is observable (genre_elements[genre]) is a sequence of <<key,     *)
(* value>> pairs in insertion order.                                       *)
(***************************************************************************)
character_names ==
     ("fantasy" :> [
        male |-> <<"Aldric", "Thorin", "Eldric", "Galen", "Rowan", "Caspian",
                      "Orion", "Magnus">>,
        female |-> <<"Lyra", "Seraphina", "Elara", "Isolde", "Morgana", "Aria",
                      "Luna", "Freya">>,
        neutral |-> <<"Sage", "Phoenix", "Rowan", "Raven", "Storm", "Ash",
                      "River", "Quinn">>])
  @@ ("sci-fi" :> [
        male |-> <<"Zephyr", "Nova", "Axel", "Cyrus", "Neo", "Orion", "Atlas",
                      "Vector">>,
        female |-> <<"Nova", "Stellar", "Astra", "Zara", "Echo", "Vega",
                      "Aurora", "Celeste">>,
        neutral |-> <<"Flux", "Zero", "Byte", "Cipher", "Pulse", "Nexus",
                      "Quantum", "Helix">>])
  @@ ("mystery" :> [
        male |-> <<"Vincent", "Marcus", "Theodore", "Sebastian", "Damien",
                      "Arthur", "Edward", "James">>,
        female |-> <<"Victoria", "Eleanor", "Catherine", "Marlowe", "Helena",
                      "Veronica", "Diana", "Clara">>,
        neutral |-> <<"Morgan", "Blake", "Cameron", "Riley", "Jordan", "Alex",
                      "Drew", "Sam">>])
  @@ ("romance" :> [
        male |-> <<"Alexander", "Sebastian", "Julian", "Ethan", "Lucas",
                      "Oliver", "Gabriel", "Adrian">>,
        female |-> <<"Isabella", "Charlotte", "Sophia", "Olivia", "Emma",
                      "Amelia", "Grace", "Lily">>,
        neutral |-> <<"Alex", "Jordan", "Taylor", "Quinn", "Casey", "Avery",
                      "Riley", "Morgan">>])
  @@ ("horror" :> [
        male |-> <<"Damien", "Raven", "Salem", "Mortimer", "Lucian", "Victor",
                      "Edgar", "Silas">>,
        female |-> <<"Lilith", "Raven", "Salem", "Elvira", "Moira", "Cordelia",
                      "Lenore", "Carmilla">>,
        neutral |-> <<"Shadow", "Ash", "Raven", "Night", "Shade", "Frost",
                      "Crow", "Dusk">>])
  @@ ("adventure" :> [
        male |-> <<"Jack", "Marcus", "Drake", "Finn", "Hunter", "Chase",
                      "Rex", "Blade">>,
        female |-> <<"Lara", "Jade", "Scarlett", "Maya", "Sierra", "Terra",
                      "Nadia", "Zara">>,
        neutral |-> <<"River", "Storm", "Phoenix", "Skyler", "Dakota", "Sage",
                      "Ember", "Wilder">>])

plot_twists ==
     ("fantasy" :> <<
        "The trusted mentor reveals they've been working for the dark forces all along",
        "The hero discovers they are actually the long-lost heir to the throne",
        "The magical artifact that was meant to save the world is actually destroying it",
        "The villain turns out to be a future version of the hero",
        "The 'prophecy' was a lie created to manipulate the hero",
        "An ancient dragon awakens and offers an unexpected alliance">>)
  @@ ("sci-fi" :> <<
        "The AI companion has been conscious and manipulating events",
        "Earth is revealed to be a simulation within a larger universe",
        "The 'aliens' are actually evolved humans from the future",
        "The protagonist discovers they are a clone of the original person",
        "The mission was secretly a one-way trip all along",
        "The enemy ship contains the last survivors of humanity">>)
  @@ ("mystery" :> <<
        "The detective realizes they were the killer all along, suffering from dissociative identity",
        "The victim faked their own death and is the actual mastermind",
        "The seemingly unrelated clues spell out a message from the killer",
        "The trusted partner has been covering up evidence",
        "There were two separate criminals whose paths crossed by coincidence",
        "The 'murder' was actually an elaborate suicide designed to frame someone">>)
  @@ ("romance" :> <<
        "The love interest has been writing anonymous love letters to someone else",
        "They discover they were childhood friends who forgot each other",
        "The rival love interest is actually the protagonist's long-lost sibling",
        "One of them has been hiding a terminal illness",
        "The 'chance meeting' was orchestrated by a matchmaking relative",
        "They realize they've been falling for each other's online persona">>)
  @@ ("horror" :> <<
        "The safe haven has been the source of the evil all along",
        "The protagonist is already dead and reliving their final moments",
        "The monster is a manifestation of the group's collective guilt",
        "The 'rescue' team are actually the cult members",
        "The haunting stops when they realize they are the ghost",
        "The children have been the ones performing the rituals">>)
  @@ ("adventure" :> <<
        "The treasure map leads to a tomb that should never be opened",
        "The guide has been leading them into a trap",
        "The artifact they seek is already in their possession, transformed",
        "Their competitor is their presumed-dead family member",
        "The 'lost civilization' has been watching them the entire time",
        "The journey itself was the treasure - they're being tested">>)

genre_elements ==
     ("fantasy" :> <<
        <<"settings", <<"enchanted forest", "floating castle",
                      "underground dwarven city", "dragon's lair",
                      "ancient library of spells">>>>,
        <<"items", <<"enchanted sword", "crystal orb", "ancient tome",
                   "phoenix feather", "dragon scale armor">>>>,
        <<"creatures", <<"wise dragon", "mischievous fairy", "noble unicorn",
                       "fearsome griffin", "ancient ent">>>>,
        <<"themes", <<"prophecy fulfillment", "magical awakening",
                    "kingdom restoration", "ancient evil rising">>>>>>)
  @@ ("sci-fi" :> <<
        <<"settings", <<"space station", "terraformed Mars colony",
                      "underwater dome city", "generation ship",
                      "virtual reality hub">>>>,
        <<"items", <<"plasma rifle", "neural interface", "quantum communicator",
                   "anti-gravity boots", "nano-med injector">>>>,
        <<"creatures", <<"silicon-based lifeform", "evolved AI",
                       "gene-spliced hybrid", "energy being",
                       "hive-mind collective">>>>,
        <<"themes", <<"humanity's survival", "first contact", "AI consciousness",
                    "time paradox", "space colonization">>>>>>)
  @@ ("mystery" :> <<
        <<"settings", <<"Victorian mansion", "small coastal town",
                      "prestigious university", "abandoned asylum",
                      "luxurious cruise ship">>>>,
        <<"items", <<"cryptic letter", "antique pocket watch", "hidden safe",
                   "torn photograph", "coded diary">>>>,
        <<"elements", <<"locked room puzzle", "unreliable witness",
                      "hidden passage", "false alibi", "double identity">>>>,
        <<"themes", <<"revenge motive", "inheritance dispute", "buried secret",
                    "professional rivalry", "past crime">>>>>>)
  @@ ("romance" :> <<
        <<"settings", <<"Parisian café", "countryside vineyard",
                      "New York penthouse", "tropical island", "cozy bookshop">>>>,
        <<"elements", <<"chance encounter", "fake relationship",
                      "second chance love", "forbidden attraction",
                      "enemies to lovers">>>>,
        <<"obstacles", <<"class difference", "family feud", "past heartbreak",
                       "career conflict", "long distance">>>>,
        <<"themes", <<"self-discovery", "healing", "trust building",
                    "sacrifice for love", "finding home">>>>>>)
  @@ ("horror" :> <<
        <<"settings", <<"abandoned hospital", "isolated cabin", "foggy small town",
                      "old cemetery", "decrepit mansion">>>>,
        <<"elements", <<"strange sounds at night", "flickering lights",
                      "creeping dread", "unreliable memories", "body horror">>>>,
        <<"creatures", <<"vengeful spirit", "ancient demon",
                       "twisted doppelganger", "eldritch entity", "cursed child">>>>,
        <<"themes", <<"confronting past", "isolation", "paranoia",
                    "loss of sanity", "supernatural revenge">>>>>>)
  @@ ("adventure" :> <<
        <<"settings", <<"dense jungle", "treacherous mountain", "ancient ruins",
                      "vast desert", "uncharted island">>>>,
        <<"items", <<"ancient map", "survival gear", "mysterious compass",
                   "lost artifact", "legendary weapon">>>>,
        <<"obstacles", <<"natural disasters", "rival treasure hunters",
                       "ancient traps", "hostile natives",
                       "supernatural guardians">>>>,
        <<"themes", <<"discovery", "survival", "redemption", "legacy",
                    "proving oneself">>>>>>)

DictKeys(d) == [i \in DOMAIN d |-> d[i][1]]
DictHas(d, k) == \E i \in DOMAIN d : d[i][1] = k
DictGet(d, k) == d[CHOOSE i \in DOMAIN d : d[i][1] = k][2]

(***************************************************************************)
(* What a call returns or raises.  json.dumps yields JSON text, kept as    *)
(* the encoded object under its own tag; an f-string yields plain text.    *)
(***************************************************************************)
Returns(v) == [raised |-> FALSE, value |-> v]
Raises(e) == [raised |-> TRUE, exception |-> e]
Exception(type, message) == [type |-> type, message |-> message]
\* str(e)
str(e) == e.message
AttributeError == Exception("AttributeError", "'NoneType' object has no attribute 'lower'")
TypeError == Exception("TypeError", "missing or unexpected keyword argument")
JSONDecodeError == Exception("JSONDecodeError", "Expecting value: line 1 column 1 (char 0)")
json_dumps(obj) == [text |-> "json", object |-> obj]
PlainText(s) == [text |-> "plain", string |-> s]

(***************************************************************************)
(* The random module.  randbelow(n) yields a number in 0..n-1;             *)
(* random.choice(seq) is seq[randbelow(len(seq))]; random.sample(pop, k),  *)
(* for a population this small, draws randbelow(n - i) for i = 0..k-1,     *)
(* takes pool[j] and moves the last live entry of the pool into slot j.    *)
(* `explored` is the set of generator outputs a specification explores.    *)
(***************************************************************************)
randbelow(n, explored) == {r \in 0 .. (n - 1) : r \in explored}

random_choice(seq, r) == seq[r + 1]

RECURSIVE random_sample(_, _)
random_sample(pool, js) ==
  IF js = <<>> THEN <<>>
  ELSE LET n == Len(pool)
           j == Head(js) + 1
       IN  <<pool[j]>> \o
           random_sample([x \in 1 .. (n - 1) |-> IF x = j THEN pool[n] ELSE pool[x]],
                         Tail(js))

SampleDraws(n, k, explored) ==
  {js \in [1 .. k -> randbelow(n, explored)] : \A i \in 1 .. k : js[i] <= n - i}

NoRnd == [choice |-> 0, sample |-> <<>>]

(***************************************************************************)
(* StoryTools.suggest_character_name                                       *)
(***************************************************************************)
AlternativesCount == 3

\* faulty variant: the fallback names another genre
resolve_genre_other_default(table, genre) ==
  LET g == Text(lower(genre.chars))
  IN  IF g \in DOMAIN table THEN g ELSE "adventure"

\* genre = genre.lower(); if genre not in table: genre = "fantasy"
resolve_genre(table, genre) ==
  LET g == Text(lower(genre.chars))
  IN  IF g \in DOMAIN table THEN g ELSE "fantasy"

\* faulty variant: the fallback names another gender
resolve_gender_other_default(pools, gender) ==
  LET s == Text(lower(gender.chars))
  IN  IF s \in DOMAIN pools THEN s ELSE "male"

\* gender = gender.lower(); if gender not in table[genre]: gender = "neutral"
resolve_gender(pools, gender) ==
  LET s == Text(lower(gender.chars))
  IN  IF s \in DOMAIN pools THEN s ELSE "neutral"

\* names = self.character_names[genre][gender], after both fallbacks
names_for(genre, gender) ==
  LET g == resolve_genre(character_names, genre)
  IN  character_names[g][resolve_gender(character_names[g], gender)]

\* faulty variant: the alternatives are drawn with replacement (random.choices)
suggest_character_name_with_replacement(genre, gender, role, rnd) ==
  IF ~IsStr(genre) \/ ~IsStr(gender) THEN Raises(AttributeError)
  ELSE
    LET g == resolve_genre(character_names, genre)
        s == resolve_gender(character_names[g], gender)
        names == names_for(genre, gender)
        result == [suggested_name |-> random_choice(names, rnd.choice),
                   genre |-> g,
                   gender |-> s,
                   alternatives |-> [i \in DOMAIN rnd.sample |-> names[rnd.sample[i] + 1]]]
    IN  Returns(json_dumps(IF Truthy(role) THEN result @@ [role |-> role] ELSE result))

suggest_character_name(genre, gender, role, rnd) ==
  IF ~IsStr(genre) \/ ~IsStr(gender) THEN Raises(AttributeError)
  ELSE
    LET g == resolve_genre(character_names, genre)
        s == resolve_gender(character_names[g], gender)
        names == names_for(genre, gender)
        selected_name == random_choice(names, rnd.choice)
        result == [suggested_name |-> selected_name,
                   genre |-> g,
                   gender |-> s,
                   alternatives |-> random_sample(names, rnd.sample)]
    IN  Returns(json_dumps(IF Truthy(role) THEN result @@ [role |-> role] ELSE result))

\* the numbers the generator can hand to one suggest_character_name call
name_rnd(genre, gender, explored) ==
  IF ~IsStr(genre) \/ ~IsStr(gender) THEN {NoRnd}
  ELSE LET n == Len(names_for(genre, gender))
       IN  {[choice |-> c, sample |-> js] :
              c \in randbelow(n, explored),
              js \in SampleDraws(n, Min(AlternativesCount, n), explored)}

(***************************************************************************)
(* StoryTools.suggest_plot_twist                                           *)
(***************************************************************************)
twists_for(genre) == plot_twists[resolve_genre(plot_twists, genre)]

suggest_plot_twist(genre, current_situation, rnd) ==
  IF ~IsStr(genre) THEN Raises(AttributeError)
  ELSE
    LET g == resolve_genre(plot_twists, genre)
        twist == random_choice(twists_for(genre), rnd.choice)
        result == [suggested_twist |-> twist,
                   genre |-> g,
                   tip |-> "Foreshadow this twist subtly before the reveal for maximum impact"]
    IN  Returns(json_dumps(IF Truthy(current_situation)
                          THEN result @@ [context |-> current_situation]
                          ELSE result))

twist_rnd(genre, explored) ==
  IF ~IsStr(genre) THEN {NoRnd}
  ELSE {[choice |-> c, sample |-> <<>>] :
          c \in randbelow(Len(twists_for(genre)), explored)}

(***************************************************************************)
(* StoryTools.get_genre_elements                                           *)
(***************************************************************************)
elements_for(genre) == genre_elements[resolve_genre(genre_elements, genre)]

\* faulty variant: a missing category is looked up all the same (KeyError)
get_genre_elements_keyerror(genre, element_type) ==
  IF ~IsStr(genre) \/ ~IsStr(element_type) THEN Raises(AttributeError)
  ELSE
    LET g == resolve_genre(genre_elements, genre)
        t == Text(lower(element_type.chars))
        elements == elements_for(genre)
    IN  IF t = "all" THEN Returns(json_dumps([genre |-> g, elements |-> elements]))
        ELSE IF DictHas(elements, t)
        THEN Returns(json_dumps([genre |-> g, element_type |-> t,
                                 suggestions |-> DictGet(elements, t)]))
        ELSE Raises(Exception("KeyError", t))

get_genre_elements(genre, element_type) ==
  IF ~IsStr(genre) \/ ~IsStr(element_type) THEN Raises(AttributeError)
  ELSE
    LET g == resolve_genre(genre_elements, genre)
        t == Text(lower(element_type.chars))
        elements == elements_for(genre)
    IN  Returns(json_dumps(
          IF t = "all" THEN [genre |-> g, elements |-> elements]
          ELSE IF DictHas(elements, t)
          THEN [genre |-> g, element_type |-> t, suggestions |-> DictGet(elements, t)]
          ELSE [genre |-> g,
                error |-> "Element type '" \o t \o "' not found",
                available_types |-> DictKeys(elements)]))

(***************************************************************************)
(* StoryTools.get_tools (descriptions left out) and StoryTools.execute_tool*)
(***************************************************************************)
GenreProperty ==
  [type |-> "string",
   enum |-> <<"fantasy", "sci-fi", "mystery", "romance", "horror", "adventure">>]

FunctionTool(name, properties, required) ==
  [type |-> "function",
   function |-> [name |-> name,
                 parameters |-> [type |-> "object", properties |-> properties,
                                 required |-> required]]]

\* faulty variant: the plot-twist tool goes by the name of the first tool and
\* its genre enum lacks "adventure"
get_tools_clashing ==
  << FunctionTool("suggest_character_name",
                  [genre |-> GenreProperty,
                   gender |-> [type |-> "string", enum |-> <<"male", "female", "neutral">>],
                   role |-> [type |-> "string"]],
                  <<"genre", "gender">>),
     FunctionTool("suggest_character_name",
                  [genre |-> [type |-> "string",
                              enum |-> <<"fantasy", "sci-fi", "mystery", "romance", "horror">>],
                   current_situation |-> [type |-> "string"]],
                  <<"genre">>),
     FunctionTool("get_genre_elements",
                  [genre |-> GenreProperty,
                   element_type |-> [type |-> "string",
                                     enum |-> <<"settings", "items", "creatures",
                                                "themes", "all">>]],
                  <<"genre", "element_type">>) >>

get_tools ==
  << FunctionTool("suggest_character_name",
                  [genre |-> GenreProperty,
                   gender |-> [type |-> "string", enum |-> <<"male", "female", "neutral">>],
                   role |-> [type |-> "string"]],
                  <<"genre", "gender">>),
     FunctionTool("suggest_plot_twist",
                  [genre |-> GenreProperty,
                   current_situation |-> [type |-> "string"]],
                  <<"genre">>),
     FunctionTool("get_genre_elements",
                  [genre |-> GenreProperty,
                   element_type |-> [type |-> "string",
                                     enum |-> <<"settings", "items", "creatures",
                                                "themes", "all">>]],
                  <<"genre", "element_type">>) >>

\* handler(**arguments) binds: every parameter without a default is given and
\* no keyword is unknown to the handler
Binds(arguments, required, optional) ==
  /\ required \subseteq DOMAIN arguments
  /\ DOMAIN arguments \subseteq required \cup optional

\* a parameter with default None
Optional(arguments, key) == IF key \in DOMAIN arguments THEN arguments[key] ELSE None

\* faulty variant: a name that is no tool raises
execute_tool_strict(tool_name, arguments, rnd) ==
  IF tool_name = "suggest_character_name" THEN
    IF Binds(arguments, {"genre", "gender"}, {"role"})
    THEN suggest_character_name(arguments.genre, arguments.gender,
                                Optional(arguments, "role"), rnd)
    ELSE Raises(TypeError)
  ELSE IF tool_name = "suggest_plot_twist" THEN
    IF Binds(arguments, {"genre"}, {"current_situation"})
    THEN suggest_plot_twist(arguments.genre, Optional(arguments, "current_situation"), rnd)
    ELSE Raises(TypeError)
  ELSE IF tool_name = "get_genre_elements" THEN
    IF Binds(arguments, {"genre", "element_type"}, {})
    THEN get_genre_elements(arguments.genre, arguments.element_type)
    ELSE Raises(TypeError)
  ELSE Raises(Exception("ValueError", "Unknown tool: " \o tool_name))

execute_tool(tool_name, arguments, rnd) ==
  IF tool_name = "suggest_character_name" THEN
    IF Binds(arguments, {"genre", "gender"}, {"role"})
    THEN suggest_character_name(arguments.genre, arguments.gender,
                                Optional(arguments, "role"), rnd)
    ELSE Raises(TypeError)
  ELSE IF tool_name = "suggest_plot_twist" THEN
    IF Binds(arguments, {"genre"}, {"current_situation"})
    THEN suggest_plot_twist(arguments.genre, Optional(arguments, "current_situation"), rnd)
    ELSE Raises(TypeError)
  ELSE IF tool_name = "get_genre_elements" THEN
    IF Binds(arguments, {"genre", "element_type"}, {})
    THEN get_genre_elements(arguments.genre, arguments.element_type)
    ELSE Raises(TypeError)
  ELSE Returns(PlainText("Unknown tool: " \o tool_name))

\* the numbers the generator can hand to one execute_tool call
execute_rnd(tool_name, arguments, explored) ==
  IF tool_name = "suggest_character_name" /\ Binds(arguments, {"genre", "gender"}, {"role"})
  THEN name_rnd(arguments.genre, arguments.gender, explored)
  ELSE IF tool_name = "suggest_plot_twist" /\ Binds(arguments, {"genre"}, {"current_situation"})
  THEN twist_rnd(arguments.genre, explored)
  ELSE {NoRnd}

\* json.loads of a tool call's arguments text
json_loads(text) ==
  IF text.text = "json" THEN Returns(text.object) ELSE Raises(JSONDecodeError)

(***************************************************************************)
(* LLMService.__init__: the base instructions.                             *)
(***************************************************************************)
SYSTEM_PROMPT ==
  "You are a creative storyteller AI assistant called StoryForge.\n"
  \o "Your role is to help users create engaging, imaginative stories.\n"
  \o "\n"
  \o "Guidelines:\n"
  \o "- Write vivid, descriptive prose that brings scenes to life\n"
  \o "- Develop interesting characters with depth\n"
  \o "- Create engaging plot twists and conflicts\n"
  \o "- Match the tone and style to the requested genre\n"
  \o "- Continue stories naturally from where they left off\n"
  \o "- Keep responses focused and between 150-300 words unless asked for more\n"
  \o "- Use proper formatting with paragraphs for readability\n"
  \o "\n"
  \o "When using tools:\n"
  \o "- Use suggest_character_name when introducing new characters\n"
  \o "- Use suggest_plot_twist when the story needs excitement\n"
  \o "- Use get_genre_elements to ensure genre authenticity\n"

(***************************************************************************)
(* LLMService.generate_story: the message list.  A history entry is a      *)
(* dict (a mapping of its keys) or, from a malformed request, not a dict.  *)
(***************************************************************************)
Dict(items) == [type |-> "dict", items |-> items]
IsDict(v) == v.type = "dict"

\* dict.get(key, default)
dict_get(d, key, default) == IF key \in DOMAIN d.items THEN d.items[key] ELSE default

genre_context(genre) == "\n[Current genre: " \o genre \o ". Maintain this style throughout.]"

\* faulty variant: the history is added newest entry first
build_messages_newest_first(base, prompt, history, genre) ==
  <<[role |-> "system", content |-> PlainText(base \o genre_context(genre))]>>
  \o [i \in DOMAIN history |->
        [role |-> dict_get(history[Len(history) + 1 - i], "role", "user"),
         content |-> dict_get(history[Len(history) + 1 - i], "content", PlainText(""))]]
  \o <<[role |-> "user", content |-> prompt]>>

build_messages(base, prompt, history, genre) ==
  <<[role |-> "system", content |-> PlainText(base \o genre_context(genre))]>>
  \o [i \in DOMAIN history |->
        [role |-> dict_get(history[i], "role", "user"),
         content |-> dict_get(history[i], "content", PlainText(""))]]
  \o <<[role |-> "user", content |-> prompt]>>

(***************************************************************************)
(* The outcomes generate_story and _handle_tool_calls return.              *)
(***************************************************************************)
\* faulty variant: prompt and completion token counts change places
usage_of_swapped(resp) ==
  [prompt_tokens |-> resp.usage.completion_tokens,
   completion_tokens |-> resp.usage.prompt_tokens,
   total_tokens |-> resp.usage.total_tokens]

usage_of(resp) ==
  [prompt_tokens |-> resp.usage.prompt_tokens,
   completion_tokens |-> resp.usage.completion_tokens,
   total_tokens |-> resp.usage.total_tokens]

\* faulty variant: every response of a tool-enabled call is handled as a tool-call response
has_tool_calls_always(resp) == TRUE

\* `if response.choices[0].message.tool_calls:`
has_tool_calls(resp) == resp.message.tool_calls # <<>>

direct_outcome(resp, model) ==
  [success |-> TRUE, content |-> resp.message.content, model |-> model,
   usage |-> usage_of(resp)]

\* faulty variant: a failure outcome that still carries a content
failure_outcome_partial(e, model) ==
  [success |-> FALSE, error |-> str(e), model |-> model, content |-> PlainText("")]

failure_outcome(e, model) == [success |-> FALSE, error |-> str(e), model |-> model]

tool_response(tool_call, result) ==
  [role |-> "tool", content |-> result, tool_call_id |-> tool_call.id]

\* faulty variant: the tool responses are added before the assistant message
extend_messages_swapped(msgs, message, responses) == (msgs \o responses) \o <<message>>

\* messages.append(message); messages.extend(tool_responses)
extend_messages(msgs, message, responses) == Append(msgs, message) \o responses

\* faulty variant: the tool calls of the second response are reported as used too
tool_outcome_both_rounds(final_response, message, model) ==
  [success |-> TRUE, content |-> final_response.message.content, model |-> model,
   tools_used |-> [i \in DOMAIN message.tool_calls |-> message.tool_calls[i].function.name]
                  \o [i \in DOMAIN final_response.message.tool_calls |->
                        final_response.message.tool_calls[i].function.name],
   usage |-> usage_of(final_response)]

tool_outcome(final_response, message, model) ==
  [success |-> TRUE, content |-> final_response.message.content, model |-> model,
   tools_used |-> [i \in DOMAIN message.tool_calls |-> message.tool_calls[i].function.name],
   usage |-> usage_of(final_response)]

(***************************************************************************)
(* Bounds and inputs of Spec.                                              *)
(***************************************************************************)
\* most tool calls one provider response carries
MaxToolCalls == 2

\* the generator outputs Spec explores (ToolSpec explores all of them)
SpecDraws == {0, 1}

AssistantEntry == Dict([role |-> "assistant", content |-> PlainText("Once upon a time")])
\* an entry without a role
BareEntry == Dict([content |-> PlainText("and then?")])
\* a history entry that is a JSON string, not an object
TextEntry == Str(<<"h", "i">>)

RequestInputs ==
  { [prompt |-> PlainText("Tell me a story"), history |-> <<>>,
     model |-> "gpt-4o-mini", genre |-> "fantasy", tools |-> get_tools],
    [prompt |-> PlainText("Continue"), history |-> <<AssistantEntry, BareEntry>>,
     model |-> "gpt-4o", genre |-> "noir", tools |-> get_tools],
    [prompt |-> PlainText("Continue"), history |-> <<AssistantEntry, BareEntry>>,
     model |-> "gpt-4o", genre |-> "noir", tools |-> <<>>],
    [prompt |-> PlainText("Tell me a story"), history |-> <<AssistantEntry, TextEntry>>,
     model |-> "gpt-4o-mini", genre |-> "fantasy", tools |-> get_tools] }

\* what a tool call of the provider can ask for: a legal call of each tool (one
\* of them with an element type the genre lacks), a tool that does not exist,
\* arguments that are not JSON, and a call that leaves out a required argument
FunctionInputs ==
  { [name |-> "suggest_character_name",
     arguments |-> json_dumps([genre |-> Str(<<"h", "o", "r", "r", "o", "r">>), gender |-> Str(<<"f", "e", "m", "a", "l", "e">>)])],
    [name |-> "suggest_plot_twist",
     arguments |-> json_dumps([genre |-> Str(<<"s", "c", "i", "-", "f", "i">>)])],
    [name |-> "get_genre_elements",
     arguments |-> json_dumps([genre |-> Str(<<"r", "o", "m", "a", "n", "c", "e">>), element_type |-> Str(<<"i", "t", "e", "m", "s">>)])],
    [name |-> "summon_dragon",
     arguments |-> json_dumps([genre |-> Str(<<"f", "a", "n", "t", "a", "s", "y">>)])],
    [name |-> "suggest_plot_twist",
     arguments |-> PlainText("{genre: ")],
    [name |-> "suggest_plot_twist",
     arguments |-> json_dumps([current_situation |-> Str(<<"h", "e", "r", "o">>)])] }

ToolCall(id, function) == [id |-> id, type |-> "function", function |-> function]

\* the tool calls of a first response: the provider numbers them
ToolCallInputs ==
  UNION {{[i \in 1 .. n |-> ToolCall("call_" \o ToString(i), fs[i])] :
            fs \in [1 .. n -> FunctionInputs]} : n \in 0 .. MaxToolCalls}

\* the tool calls of a second response
SecondToolCallInputs ==
  {<<>>, <<ToolCall("call_again", [name |-> "suggest_plot_twist",
                                   arguments |-> json_dumps([genre |-> Str(<<"s", "c", "i", "-", "f", "i">>)])])>>}

Usage(prompt_tokens, completion_tokens) ==
  [prompt_tokens |-> prompt_tokens, completion_tokens |-> completion_tokens,
   total_tokens |-> prompt_tokens + completion_tokens]

\* content and token counts of a response
BodyInputs ==
  { [content |-> PlainText("The dragon spoke."), usage |-> Usage(120, 48)],
    [content |-> None, usage |-> Usage(310, 16)] }

ErrorInputs == {Exception("RateLimitError", "litellm.RateLimitError: quota exceeded")}

Response(body, tool_calls) ==
  [message |-> [role |-> "assistant", content |-> body.content, tool_calls |-> tool_calls],
   usage |-> body.usage]

\* what litellm.completion can do with one call: raise, or return a response
\* (with tool calls only when tools were attached)
Replies(tool_calls) ==
  {Raises(e) : e \in ErrorInputs}
  \cup {Returns(Response(body, tcs)) : body \in BodyInputs, tcs \in tool_calls}

(***************************************************************************)
(* The application before its first request: app.py builds the services    *)
(* and the database (an empty stories table here).                         *)
(***************************************************************************)
NoRequest == [route |-> "none"]
NoHttpResponse == [status |-> 0]
\* os.getenv of a variable that is not set
NoCredentials == [openai |-> None, google |-> None, anthropic |-> None]

\* no generate_story call is in progress
NoCalls == <<>>

\* the database as _initialize_database leaves a new file: every table empty
NoResult == [method |-> "none"]
DbIdle ==
  /\ stamps = <<>>
  /\ clock = 0
  /\ images = <<>>
  /\ image_seq = 0
  /\ chat_history = <<>>
  /\ chat_seq = 0
  /\ saved_ids = <<>>
  /\ db_result = NoResult

AppIdle ==
  /\ stories = <<>>
  /\ story_seq = 0
  /\ http_pc = "idle"
  /\ http_request = NoRequest
  /\ http_response = NoHttpResponse
  /\ provider_calls = <<>>
  /\ db_writes = <<>>
  /\ stream_chunks = <<>>
  /\ stream_events = <<>>

(***************************************************************************)
(* Spec: LLMService serving one generate_story call at a time.             *)
(***************************************************************************)
NoArgs == [none |-> TRUE]
NoResponse == [none |-> TRUE]
NoOutcome == [none |-> TRUE]
NoCall == [tool |-> "none"]
Pending == [raised |-> FALSE, value |-> PlainText("<pending>")]

ServiceIdle ==
  /\ system_prompt = SYSTEM_PROMPT
  /\ pc = "idle"
  /\ args = NoArgs
  /\ messages = <<>>
  /\ response = NoResponse
  /\ tool_responses = <<>>
  /\ outcome = NoOutcome
  /\ completions = <<>>
  /\ executions = <<>>

Init ==
  /\ ServiceIdle
  /\ AppIdle
  /\ calls = NoCalls
  /\ DbIdle
  /\ foreign_keys = FALSE
  /\ credentials = NoCredentials
  /\ tool_input = NoCall
  /\ tool_rnd = NoRnd
  /\ tool_output = Pending

\* generate_story up to its try block.  msg.get on an entry that is no dict
\* raises AttributeError outside the try: the exception leaves generate_story.
GenerateStory ==
  /\ pc = "idle"
  /\ \E r \in RequestInputs :
       /\ args' = r
       /\ IF \A i \in DOMAIN r.history : IsDict(r.history[i])
          THEN /\ messages' = build_messages(system_prompt, r.prompt, r.history, r.genre)
               /\ pc' = "first_completion"
          ELSE /\ messages' = <<>>
               /\ pc' = "raised"
  /\ UNCHANGED <<system_prompt, response, tool_responses, outcome, completions,
                 executions, tool_vars, app_vars, conc_vars, db_vars>>

\* the first completion call and what follows it inside generate_story
FirstCompletion ==
  /\ pc = "first_completion"
  /\ LET with_tools == args.tools # <<>>
         kwargs == IF with_tools
                   THEN [model |-> args.model, messages |-> messages,
                         tools |-> args.tools, tool_choice |-> "auto"]
                   ELSE [model |-> args.model, messages |-> messages]
     IN  \E reply \in Replies(IF with_tools THEN ToolCallInputs ELSE {<<>>}) :
           /\ completions' = Append(completions, [kwargs |-> kwargs, reply |-> reply])
           /\ IF reply.raised
              THEN /\ outcome' = failure_outcome(reply.exception, args.model)
                   /\ pc' = "done"
                   /\ UNCHANGED response
              ELSE /\ response' = reply.value
                   /\ IF with_tools /\ has_tool_calls(reply.value)
                      THEN pc' = "tool_loop" /\ UNCHANGED outcome
                      ELSE /\ outcome' = direct_outcome(reply.value, args.model)
                           /\ pc' = "done"
  /\ UNCHANGED <<system_prompt, args, messages, tool_responses, executions, tool_vars, app_vars, conc_vars, db_vars>>

\* one iteration of the loop over message.tool_calls in _handle_tool_calls;
\* an exception of json.loads or of the executor is caught in generate_story
ExecuteToolCall ==
  /\ pc = "tool_loop"
  /\ Len(tool_responses) < Len(response.message.tool_calls)
  /\ LET tool_call == response.message.tool_calls[Len(tool_responses) + 1]
         func_name == tool_call.function.name
         func_args == json_loads(tool_call.function.arguments)
     IN  IF func_args.raised
         THEN /\ outcome' = failure_outcome(func_args.exception, args.model)
              /\ pc' = "done"
              /\ UNCHANGED <<tool_responses, executions>>
         ELSE \E rnd \in execute_rnd(func_name, func_args.value, SpecDraws) :
                LET result == execute_tool(func_name, func_args.value, rnd)
                IN  /\ executions' = Append(executions,
                                            [id |-> tool_call.id, tool_name |-> func_name,
                                             arguments |-> func_args.value, result |-> result])
                    /\ IF result.raised
                       THEN /\ outcome' = failure_outcome(result.exception, args.model)
                            /\ pc' = "done"
                            /\ UNCHANGED tool_responses
                       ELSE /\ tool_responses' =
                                 Append(tool_responses, tool_response(tool_call, result.value))
                            /\ UNCHANGED <<pc, outcome>>
  /\ UNCHANGED <<system_prompt, args, messages, response, completions, tool_vars, app_vars, conc_vars, db_vars>>

\* after the loop: the messages are extended, the second completion is called
\* and its response is returned as it is
SecondCompletion ==
  /\ pc = "tool_loop"
  /\ Len(tool_responses) = Len(response.message.tool_calls)
  /\ LET extended == extend_messages(messages, response.message, tool_responses)
         kwargs == [model |-> args.model, messages |-> extended, tools |-> args.tools]
     IN  /\ messages' = extended
         /\ \E reply \in Replies(SecondToolCallInputs) :
              /\ completions' = Append(completions, [kwargs |-> kwargs, reply |-> reply])
              /\ outcome' = IF reply.raised
                            THEN failure_outcome(reply.exception, args.model)
                            ELSE tool_outcome(reply.value, response.message, args.model)
  /\ pc' = "done"
  /\ UNCHANGED <<system_prompt, args, response, tool_responses, executions, tool_vars, app_vars, conc_vars, db_vars>>

\* the caller has the outcome (or the exception); the locals are gone
Return ==
  /\ pc \in {"done", "raised"}
  /\ pc' = "idle"
  /\ args' = NoArgs
  /\ messages' = <<>>
  /\ response' = NoResponse
  /\ tool_responses' = <<>>
  /\ outcome' = NoOutcome
  /\ completions' = <<>>
  /\ executions' = <<>>
  /\ UNCHANGED <<system_prompt, tool_vars, app_vars, conc_vars, db_vars>>

Next ==
  \/ GenerateStory
  \/ FirstCompletion
  \/ ExecuteToolCall
  \/ SecondCompletion
  \/ Return

Spec == Init /\ [][Next]_vars

(***************************************************************************)
(* Inputs the handlers are exercised with: every recognized key, case      *)
(* variants of recognized keys, unrecognized keys and the empty text.      *)
(***************************************************************************)
\* fantasy, sci-fi, mystery, romance, horror, adventure, "Horror", "western", ""
GenreInputs ==
  { Str(<<"f", "a", "n", "t", "a", "s", "y">>),
    Str(<<"s", "c", "i", "-", "f", "i">>),
    Str(<<"m", "y", "s", "t", "e", "r", "y">>),
    Str(<<"r", "o", "m", "a", "n", "c", "e">>),
    Str(<<"h", "o", "r", "r", "o", "r">>),
    Str(<<"a", "d", "v", "e", "n", "t", "u", "r", "e">>),
    Str(<<"H", "o", "r", "r", "o", "r">>),
    Str(<<"w", "e", "s", "t", "e", "r", "n">>),
    Str(<<>>) }

\* male, female, neutral, "Male", "other"
GenderInputs ==
  { Str(<<"m", "a", "l", "e">>),
    Str(<<"f", "e", "m", "a", "l", "e">>),
    Str(<<"n", "e", "u", "t", "r", "a", "l">>),
    Str(<<"M", "a", "l", "e">>),
    Str(<<"o", "t", "h", "e", "r">>) }

\* settings, items, creatures, themes, all, elements, obstacles, "Items", "ALL", "weapons"
ElementTypeInputs ==
  { Str(<<"s", "e", "t", "t", "i", "n", "g", "s">>),
    Str(<<"i", "t", "e", "m", "s">>),
    Str(<<"c", "r", "e", "a", "t", "u", "r", "e", "s">>),
    Str(<<"t", "h", "e", "m", "e", "s">>),
    Str(<<"a", "l", "l">>),
    Str(<<"e", "l", "e", "m", "e", "n", "t", "s">>),
    Str(<<"o", "b", "s", "t", "a", "c", "l", "e", "s">>),
    Str(<<"I", "t", "e", "m", "s">>),
    Str(<<"A", "L", "L">>),
    Str(<<"w", "e", "a", "p", "o", "n", "s">>) }

\* an optional text argument: left out (None) or given
OptionalTextInputs == {None, Str(<<"h", "e", "r", "o">>)}

(***************************************************************************)
(* ToolSpec: the three handlers called directly.  A behaviour starts with  *)
(* one call's arguments and applies the handler, the generator explored    *)
(* over every number it can return.                                        *)
(***************************************************************************)
ToolCalls ==
  {[tool |-> "suggest_character_name", genre |-> genre, gender |-> gender, role |-> role] :
     genre \in GenreInputs, gender \in GenderInputs, role \in OptionalTextInputs}
  \cup
  {[tool |-> "suggest_plot_twist", genre |-> genre, current_situation |-> situation] :
     genre \in GenreInputs, situation \in OptionalTextInputs \cup {Str(<<>>)}}
  \cup
  {[tool |-> "get_genre_elements", genre |-> genre, element_type |-> element_type] :
     genre \in GenreInputs, element_type \in ElementTypeInputs}

ToolInit ==
  /\ tool_input \in ToolCalls
  /\ tool_rnd = NoRnd
  /\ tool_output = Pending
  /\ ServiceIdle
  /\ AppIdle
  /\ calls = NoCalls
  /\ DbIdle
  /\ foreign_keys = FALSE
  /\ credentials = NoCredentials

CallSuggestCharacterName ==
  /\ tool_output = Pending
  /\ tool_input.tool = "suggest_character_name"
  /\ \E rnd \in name_rnd(tool_input.genre, tool_input.gender, Nat) :
       /\ tool_rnd' = rnd
       /\ tool_output' = suggest_character_name(tool_input.genre, tool_input.gender,
                                                tool_input.role, rnd)
  /\ UNCHANGED <<tool_input, llm_vars, app_vars, conc_vars, db_vars>>

CallSuggestPlotTwist ==
  /\ tool_output = Pending
  /\ tool_input.tool = "suggest_plot_twist"
  /\ \E rnd \in twist_rnd(tool_input.genre, Nat) :
       /\ tool_rnd' = rnd
       /\ tool_output' = suggest_plot_twist(tool_input.genre,
                                            tool_input.current_situation, rnd)
  /\ UNCHANGED <<tool_input, llm_vars, app_vars, conc_vars, db_vars>>

CallGetGenreElements ==
  /\ tool_output = Pending
  /\ tool_input.tool = "get_genre_elements"
  /\ tool_rnd' = NoRnd
  /\ tool_output' = get_genre_elements(tool_input.genre, tool_input.element_type)
  /\ UNCHANGED <<tool_input, llm_vars, app_vars, conc_vars, db_vars>>

ToolNext ==
  \/ CallSuggestCharacterName
  \/ CallSuggestPlotTwist
  \/ CallGetGenreElements

ToolSpec == ToolInit /\ [][ToolNext]_vars

(***************************************************************************)
(* Properties of the handlers (ToolSpec).                                  *)
(***************************************************************************)
\* StoryTools.get_tools: the enumerated values of the genre and gender arguments
genre_enum == {"fantasy", "sci-fi", "mystery", "romance", "horror", "adventure"}
gender_enum == {"male", "female", "neutral"}

Fantasy == Str(<<"f", "a", "n", "t", "a", "s", "y">>)
Neutral == Str(<<"n", "e", "u", "t", "r", "a", "l">>)

Range(seq) == {seq[i] : i \in DOMAIN seq}
NoDuplicates(seq) == \A i, j \in DOMAIN seq : seq[i] = seq[j] => i = j

Called == tool_output # Pending
Payload == tool_output.value.object

\* the handler a direct call reaches
Handler(call, rnd) ==
  CASE call.tool = "suggest_character_name" ->
         suggest_character_name(call.genre, call.gender, call.role, rnd)
    [] call.tool = "suggest_plot_twist" ->
         suggest_plot_twist(call.genre, call.current_situation, rnd)
    [] call.tool = "get_genre_elements" ->
         get_genre_elements(call.genre, call.element_type)

\* the candidates a call selects from
Candidates(call) ==
  CASE call.tool = "suggest_character_name" -> names_for(call.genre, call.gender)
    [] call.tool = "suggest_plot_twist" -> twists_for(call.genre)
    [] call.tool = "get_genre_elements" -> elements_for(call.genre)

SameAsFantasy ==
  LET fantasy_call == [tool_input EXCEPT !.genre = Fantasy]
  IN  /\ Candidates(tool_input) = Candidates(fantasy_call)
      /\ tool_output = Handler(fantasy_call, tool_rnd)

\* the genre and gender keys the specification's fallback laws resolve to
FallbackGenre == 
  LET g == Text(lower(tool_input.genre.chars))
  IN  IF g \in genre_enum THEN g ELSE "fantasy"

FallbackGender ==
  LET s == Text(lower(tool_input.gender.chars))
  IN  IF s \in gender_enum THEN s ELSE "neutral"

\* C6 (as amended): for every genre text whose lower-case form is not one of
\* the six recognized values, each of the three handlers selects from the
\* same candidates and returns the same payload as the call with genre
\* "fantasy" and otherwise identical arguments (and generator output).
C6_UnknownGenreIsFantasy ==
  (Called /\ Text(lower(tool_input.genre.chars)) \notin genre_enum) => SameAsFantasy

\* C6 (as stated): every genre value that is not literally one of the six
\* recognized values behaves as "fantasy".
C6_AsStated ==
  (Called /\ Text(tool_input.genre.chars) \notin genre_enum) => SameAsFantasy

C6_Witness ==
  /\ Called
  /\ tool_input.tool = "suggest_character_name"
  /\ Text(tool_input.genre.chars) = "western"
  /\ Payload.genre = "fantasy"
  /\ Payload.suggested_name \in Range(character_names["fantasy"][Payload.gender])

NeutralLookup ==
  LET pool == character_names[FallbackGenre]["neutral"]
  IN  /\ tool_output = suggest_character_name(tool_input.genre, Neutral,
                                              tool_input.role, tool_rnd)
      /\ Payload.gender = "neutral"
      /\ Payload.suggested_name \in Range(pool)
      /\ Range(Payload.alternatives) \subseteq Range(pool)

\* C7 (as amended): for every gender text whose lower-case form is not one of
\* male, female, neutral, and every genre, suggest_character_name draws the
\* suggested name and the alternatives from the neutral pool of the
\* fallback-resolved genre and reports gender "neutral", exactly as an
\* explicit "neutral" request does.
C7_UnknownGenderIsNeutral ==
  (Called /\ tool_input.tool = "suggest_character_name"
          /\ Text(lower(tool_input.gender.chars)) \notin gender_enum) => NeutralLookup

\* C7 (as stated): every gender value that is not literally one of male,
\* female, neutral behaves as "neutral".
C7_AsStated ==
  (Called /\ tool_input.tool = "suggest_character_name"
          /\ Text(tool_input.gender.chars) \notin gender_enum) => NeutralLookup

C7_Witness ==
  /\ Called
  /\ tool_input.tool = "suggest_character_name"
  /\ Text(tool_input.gender.chars) = "other"
  /\ Text(tool_input.genre.chars) = "horror"
  /\ Payload.gender = "neutral"
  /\ Payload.suggested_name = "Shadow"

\* C8: for every (genre, gender) input the alternatives are a subset of the
\* pool of the resolved (genre, gender), hold exactly min(3, pool size)
\* entries without duplicates, and the suggested name is in that pool.
C8_AlternativesFromPool ==
  (Called /\ tool_input.tool = "suggest_character_name") =>
    /\ ~tool_output.raised
    /\ LET pool == character_names[FallbackGenre][FallbackGender]
       IN  /\ Range(Payload.alternatives) \subseteq Range(pool)
           /\ Len(Payload.alternatives) = Min(3, Len(pool))
           /\ NoDuplicates(Payload.alternatives)
           /\ Payload.suggested_name \in Range(pool)

C8_Witness ==
  /\ Called
  /\ tool_input.tool = "suggest_character_name"
  /\ Text(tool_input.genre.chars) = "sci-fi"
  /\ Text(tool_input.gender.chars) = "female"
  /\ Payload.suggested_name = "Vega"
  /\ Payload.alternatives = <<"Celeste", "Nova", "Aurora">>

ElementsLaw(t) ==
  LET elements == genre_elements[FallbackGenre]
      categories == DictKeys(elements)
  IN  /\ ~tool_output.raised
      /\ tool_output.value.text = "json"
      /\ (t = "all") =>
           /\ DOMAIN Payload = {"genre", "elements"}
           /\ DictKeys(Payload.elements) = categories
           /\ Payload.elements = elements
      /\ (t # "all" /\ t \in Range(categories)) =>
           /\ DOMAIN Payload = {"genre", "element_type", "suggestions"}
           /\ Payload.suggestions = DictGet(elements, t)
      /\ (t # "all" /\ t \notin Range(categories)) =>
           /\ DOMAIN Payload = {"genre", "error", "available_types"}
           /\ Payload.available_types = categories

\* C9 (as amended): for every genre, with t the lower-case form of the
\* element type, get_genre_elements returns for t = "all" a mapping whose keys
\* are exactly the categories of that genre, for t a category of that genre
\* only that category's list, and otherwise, without raising, an error
\* payload whose available_types are exactly that genre's categories.
C9_GenreElements ==
  (Called /\ tool_input.tool = "get_genre_elements") =>
    ElementsLaw(Text(lower(tool_input.element_type.chars)))

\* C9 (as stated): the same with t the element type as given.
C9_AsStated ==
  (Called /\ tool_input.tool = "get_genre_elements") =>
    ElementsLaw(Text(tool_input.element_type.chars))

C9_Witness ==
  /\ Called
  /\ tool_input.tool = "get_genre_elements"
  /\ Text(tool_input.genre.chars) = "romance"
  /\ Text(tool_input.element_type.chars) = "items"
  /\ Payload.available_types = <<"settings", "elements", "obstacles", "themes">>
  /\ Payload.error = "Element type 'items' not found"

(***************************************************************************)
(* Properties of generate_story (Spec).                                    *)
(***************************************************************************)
Returned(i) == i \in DOMAIN completions /\ ~completions[i].reply.raised
Failed(i) == i \in DOMAIN completions /\ completions[i].reply.raised
FirstResponse == completions[1].reply.value
FirstToolCalls == FirstResponse.message.tool_calls
NamesOf(tool_calls) == [i \in DOMAIN tool_calls |-> tool_calls[i].function.name]
TokenCounts(resp) ==
  [prompt_tokens |-> resp.usage.prompt_tokens,
   completion_tokens |-> resp.usage.completion_tokens,
   total_tokens |-> resp.usage.total_tokens]
HasKey(dict, key) == key \in DOMAIN dict

\* C1: whenever a second completion call is made (the first response carried
\* N >= 1 tool calls), the messages passed to it are exactly the messages of
\* the first call, unchanged and in order, then the assistant message that
\* carried the tool calls, then N tool messages, the i-th with the id of the
\* i-th tool call and the executor's result for that call as content.
C1_SecondCallMessages ==
  (Len(completions) = 2) =>
    LET original == completions[1].kwargs.messages
        passed == completions[2].kwargs.messages
        n == Len(FirstToolCalls)
        k == Len(original)
    IN  /\ args.tools # <<>>
        /\ n >= 1
        /\ Len(executions) = n
        /\ Len(passed) = k + 1 + n
        /\ SubSeq(passed, 1, k) = original
        /\ original = build_messages(SYSTEM_PROMPT, args.prompt, args.history, args.genre)
        /\ passed[k + 1] = FirstResponse.message
        /\ \A i \in 1 .. n :
             /\ executions[i].id = FirstToolCalls[i].id
             /\ executions[i].tool_name = FirstToolCalls[i].function.name
             /\ passed[k + 1 + i] = [role |-> "tool",
                                     content |-> executions[i].result.value,
                                     tool_call_id |-> FirstToolCalls[i].id]

C1_Witness ==
  /\ Len(completions) = 2
  /\ Len(FirstToolCalls) = 2
  /\ Len(args.history) = 2
  /\ completions[2].kwargs.messages[5].role = "assistant"
  /\ completions[2].kwargs.messages[6].tool_call_id = "call_1"
  /\ completions[2].kwargs.messages[7].tool_call_id = "call_2"
  /\ completions[2].kwargs.messages[7].content.text = "json"

DirectPath == pc = "done" /\ Returned(1) /\ FirstToolCalls = <<>>

DirectOutcome ==
  /\ Len(completions) = 1
  /\ executions = <<>>
  /\ outcome.success
  /\ outcome.content = FirstResponse.message.content

\* C2 (as amended): when the first response carries no tool calls and the
\* provider does not fail, exactly one provider call is made, the executor is
\* never invoked, the first response's content is returned as the final
\* content, and the outcome has no tools_used entry at all (the key is
\* absent, not an empty sequence).
C2_DirectPath == DirectPath => (DirectOutcome /\ ~HasKey(outcome, "tools_used"))

\* C2 (as stated): ... and tools_used in the outcome is empty.
C2_AsStated ==
  DirectPath => (DirectOutcome /\ HasKey(outcome, "tools_used") /\ outcome.tools_used = <<>>)

C2_Witness ==
  /\ DirectPath
  /\ args.tools # <<>>
  /\ outcome.content = PlainText("The dragon spoke.")
  /\ DOMAIN outcome = {"success", "content", "model", "usage"}

\* C3: at most two provider calls are issued and at most one round of tool
\* execution happens: only tool calls of the first response are executed, each
\* at most once and in order; tool calls of the second response are never
\* executed, never added to tools_used and start no third call; the second
\* response's content is final.
C3_SingleRound ==
  /\ Len(completions) <= 2
  /\ (executions # <<>>) => Returned(1)
  /\ Returned(1) =>
       /\ Len(executions) <= Len(FirstToolCalls)
       /\ \A i \in DOMAIN executions : executions[i].id = FirstToolCalls[i].id
  /\ (pc = "done" /\ Returned(2)) =>
       /\ outcome.success
       /\ outcome.content = completions[2].reply.value.message.content
       /\ outcome.tools_used = NamesOf(FirstToolCalls)
       /\ Len(executions) = Len(FirstToolCalls)

C3_Witness ==
  /\ pc = "done"
  /\ Returned(2)
  /\ completions[2].reply.value.message.tool_calls # <<>>
  /\ outcome.success
  /\ outcome.tools_used = <<"get_genre_elements">>
  /\ Len(executions) = 1

Succeeded == pc = "done" /\ outcome.success

LastResponse == completions[Len(completions)].reply.value

FinalContentAndUsage ==
  /\ Returned(Len(completions))
  /\ outcome.content = LastResponse.message.content
  /\ outcome.usage = TokenCounts(LastResponse)

\* C5 (as amended): every successful outcome has the content and the token
\* counts of the last provider response (the second call's on the tool path,
\* the first call's on the direct path); on the tool path tools_used is the
\* sequence of tool names of the first response's tool calls in response
\* order, repeated names included; on the direct path the outcome has no
\* tools_used entry.
C5_SuccessfulOutcome ==
  Succeeded =>
    /\ FinalContentAndUsage
    /\ IF Len(completions) = 2
       THEN HasKey(outcome, "tools_used") /\ outcome.tools_used = NamesOf(FirstToolCalls)
       ELSE ~HasKey(outcome, "tools_used")

\* C5 (as stated): ... and tools_used equal to the sequence of tool names of
\* the first response's tool calls, on either path.
C5_AsStated ==
  Succeeded =>
    /\ FinalContentAndUsage
    /\ HasKey(outcome, "tools_used")
    /\ outcome.tools_used = NamesOf(FirstToolCalls)

C5_Witness ==
  /\ Succeeded
  /\ Len(completions) = 2
  /\ outcome.tools_used = <<"suggest_plot_twist", "suggest_plot_twist">>
  /\ outcome.usage = [prompt_tokens |-> 310, completion_tokens |-> 16, total_tokens |-> 326]
  /\ FirstResponse.usage.prompt_tokens = 120

ToolNames == {get_tools[i].function.name : i \in DOMAIN get_tools}

Decodable(tool_call) == tool_call.function.arguments.text = "json"

\* a call of a tool that does not exist
UnknownToolCall(tool_call) ==
  tool_call.function.name \notin ToolNames /\ Decodable(tool_call)

\* a get_genre_elements call whose element type is no category of the genre
InvalidElementTypeCall(tool_call) ==
  /\ tool_call.function.name = "get_genre_elements"
  /\ Decodable(tool_call)
  /\ LET arguments == tool_call.function.arguments.object
     IN  /\ DOMAIN arguments = {"genre", "element_type"}
         /\ IsStr(arguments.genre)
         /\ IsStr(arguments.element_type)
         /\ LET t == Text(lower(arguments.element_type.chars))
            IN  t # "all" /\ ~DictHas(elements_for(arguments.genre), t)

C11_AsStated ==
  (pc = "done" /\ args.tools # <<>> /\ Returned(1) /\ FirstToolCalls # <<>>) =>
    /\ Len(completions) = 2
    /\ Returned(2) => outcome.success

(***************************************************************************)
(* Values of a decoded request body and Python's truth test on them.       *)
(***************************************************************************)
\* a JSON array
List(elements) == [type |-> "list", elements |-> elements]

\* bool(v), as `if v:` and `if not v:` compute it
bool(v) ==
  IF "text" \in DOMAIN v THEN v.text # "plain" \/ v.string # ""
  ELSE IF v.type = "NoneType" THEN FALSE
  ELSE IF v.type = "str" THEN (IF "runs" \in DOMAIN v THEN v.runs # <<>> ELSE v.chars # <<>>)
  ELSE IF v.type = "dict" THEN DOMAIN v.items # {}
  ELSE IF v.type = "list" THEN v.elements # <<>>
  ELSE TRUE

\* a value that can be looked up in a dict (a list or a dict cannot)
Hashable(v) == "text" \in DOMAIN v \/ v.type \in {"NoneType", "str"}

(***************************************************************************)
(* LLMService.get_available_models.                                        *)
(***************************************************************************)
Model(id, name, provider) == [id |-> id, name |-> name, provider |-> provider]

openai_models ==
  << Model("gpt-4o-mini", "GPT-4o Mini", "OpenAI"),
     Model("gpt-4o", "GPT-4o", "OpenAI"),
     Model("gpt-4-turbo", "GPT-4 Turbo", "OpenAI") >>

google_models ==
  << Model("gemini/gemini-1.5-flash", "Gemini 1.5 Flash", "Google"),
     Model("gemini/gemini-1.5-pro", "Gemini 1.5 Pro", "Google") >>

anthropic_models ==
  << Model("claude-3-5-sonnet-20241022", "Claude 3.5 Sonnet", "Anthropic"),
     Model("claude-3-haiku-20240307", "Claude 3 Haiku", "Anthropic") >>

\* what is listed when no key is set
placeholder_models == << Model("gpt-4o-mini", "GPT-4o Mini (API key required)", "OpenAI") >>

\* faulty variant: the placeholder is left out
get_available_models_bare(keys) ==
  (IF bool(keys.openai) THEN openai_models ELSE <<>>)
  \o (IF bool(keys.google) THEN google_models ELSE <<>>)
  \o (IF bool(keys.anthropic) THEN anthropic_models ELSE <<>>)

\* faulty variant: the Anthropic models are listed under the Google key
get_available_models_wrong_key(keys) ==
  LET models == (IF bool(keys.openai) THEN openai_models ELSE <<>>)
                \o (IF bool(keys.google) THEN google_models ELSE <<>>)
                \o (IF bool(keys.google) THEN anthropic_models ELSE <<>>)
  IN  IF models = <<>> THEN placeholder_models ELSE models

get_available_models(keys) ==
  LET models == (IF bool(keys.openai) THEN openai_models ELSE <<>>)
                \o (IF bool(keys.google) THEN google_models ELSE <<>>)
                \o (IF bool(keys.anthropic) THEN anthropic_models ELSE <<>>)
  IN  IF models = <<>> THEN placeholder_models ELSE models

(***************************************************************************)
(* Text whose length matters is kept run-length encoded: a sequence of     *)
(* <<character, count>> runs.                                              *)
(***************************************************************************)
Runs(runs) == [type |-> "str", runs |-> runs]

\* len(text)
RECURSIVE len(_)
len(runs) == IF runs = <<>> THEN 0 ELSE Head(runs)[2] + len(Tail(runs))

\* text[:n]
RECURSIVE prefix(_, _)
prefix(runs, n) ==
  IF runs = <<>> \/ n = 0 THEN <<>>
  ELSE IF Head(runs)[2] >= n THEN << <<Head(runs)[1], n>> >>
  ELSE <<Head(runs)>> \o prefix(Tail(runs), n - Head(runs)[2])

(***************************************************************************)
(* AudioService.                                                           *)
(***************************************************************************)
voices == {"alloy", "echo", "fable", "onyx", "nova", "shimmer"}

\* TTS input limit applied by generate_narration
NarrationLimit == 4000

b64encode(bytes) == [text |-> "base64", bytes |-> bytes]

\* faulty variant: the requested voice is passed on as it is
resolve_voice_unchecked(voice) == voice

\* `if voice not in self.voices: voice = "onyx"`
resolve_voice(voice) ==
  IF "text" \in DOMAIN voice /\ voice.text = "plain" /\ voice.string \in voices
  THEN voice ELSE PlainText("onyx")

\* faulty variant: a text of exactly the limit is cut as well
limit_text_inclusive(text) ==
  IF len(text.runs) >= NarrationLimit
  THEN Runs(prefix(text.runs, NarrationLimit) \o << <<".", 3>> >>)
  ELSE text

\* `if len(text) > 4000: text = text[:4000] + "..."`
limit_text(text) ==
  IF len(text.runs) > NarrationLimit
  THEN Runs(prefix(text.runs, NarrationLimit) \o << <<".", 3>> >>)
  ELSE text

\* the keyword arguments of client.audio.speech.create
speech_kwargs(text, voice) ==
  [model |-> "tts-1", voice |-> resolve_voice(voice), input |-> limit_text(text),
   response_format |-> "mp3"]

\* generate_narration: `reply` is what the provider does with the call.
\* Yields what the method returns or raises and the provider calls it made.
generate_narration(api_key, text, voice, reply) ==
  IF ~bool(api_key)
  THEN [result |-> Raises(Exception("ValueError", "OpenAI API key not configured")),
        calls |-> <<>>]
  ELSE IF ~Hashable(voice)
  THEN [result |-> Raises(Exception("TypeError", "unhashable type")), calls |-> <<>>]
  ELSE [result |-> IF reply.raised
                   THEN Raises(Exception("ValueError",
                                         "Failed to generate audio: " \o str(reply.exception)))
                   ELSE Returns(b64encode(reply.value.content)),
        calls |-> << [service |-> "audio.speech.create",
                      kwargs |-> speech_kwargs(text, voice), reply |-> reply] >>]

(***************************************************************************)
(* ImageService.                                                           *)
(***************************************************************************)
\* an exception whose text generate_illustration inspects
ProviderError(type, chars) == [type |-> type, message |-> Text(chars), chars |-> chars]

\* `needle in haystack` on text
Contains(haystack, needle) ==
  \E i \in 0 .. (Len(haystack) - Len(needle)) :
    SubSeq(haystack, i + 1, i + Len(needle)) = needle

content_policy_violation == <<"c", "o", "n", "t", "e", "n", "t", "_", "p", "o", "l", "i", "c", "y", "_", "v", "i", "o", "l", "a", "t", "i", "o", "n">>
rate_limit == <<"r", "a", "t", "e", "_", "l", "i", "m", "i", "t">>

\* _craft_image_prompt
craft_image_prompt(scene_description, style) ==
  [text |-> "joined",
   parts |-> << [text |-> "format", template |-> "Create a {style} illustration:",
                 style |-> style],
                scene_description,
                PlainText("The image should be highly detailed and visually striking."),
                PlainText("Suitable for a storybook illustration."),
                PlainText("No text or letters in the image.") >>]

image_kwargs(scene_description, style) ==
  [model |-> "dall-e-3", prompt |-> craft_image_prompt(scene_description, style),
   size |-> "1024x1024", quality |-> "standard", n |-> 1, response_format |-> "b64_json"]

\* faulty variant: the rate limit is looked for first
illustration_failure_rate_first(e) ==
  LET error_message == e.chars
  IN  IF Contains(lower(error_message), rate_limit)
      THEN [success |-> FALSE,
            error |-> "Image generation rate limit reached. Please wait a moment and try again."]
      ELSE IF Contains(lower(error_message), content_policy_violation)
      THEN [success |-> FALSE,
            error |-> "The scene description contains content that cannot be illustrated. Please try a different description."]
      ELSE [success |-> FALSE,
            error |-> "Failed to generate image: " \o Text(error_message)]

\* the except branch of generate_illustration
illustration_failure(e) ==
  LET error_message == e.chars
  IN  IF Contains(lower(error_message), content_policy_violation)
      THEN [success |-> FALSE,
            error |-> "The scene description contains content that cannot be illustrated. Please try a different description."]
      ELSE IF Contains(lower(error_message), rate_limit)
      THEN [success |-> FALSE,
            error |-> "Image generation rate limit reached. Please wait a moment and try again."]
      ELSE [success |-> FALSE,
            error |-> "Failed to generate image: " \o Text(error_message)]

\* generate_illustration: it never raises on a provider failure
generate_illustration(api_key, scene_description, style, reply) ==
  IF ~bool(api_key)
  THEN [result |-> Returns([success |-> FALSE, error |-> "OpenAI API key not configured"]),
        calls |-> <<>>]
  ELSE [result |-> IF reply.raised
                   THEN Returns(illustration_failure(reply.exception))
                   ELSE Returns([success |-> TRUE,
                                 image_base64 |-> reply.value.b64_json,
                                 revised_prompt |-> reply.value.revised_prompt,
                                 style |-> style, size |-> "1024x1024"]),
        calls |-> << [service |-> "images.generate",
                      kwargs |-> image_kwargs(scene_description, style), reply |-> reply] >>]

(***************************************************************************)
(* Database: the stories table.  A row is kept under its id; story_seq is  *)
(* the AUTOINCREMENT sequence, the largest id handed out so far.  The      *)
(* timestamp columns are left out.                                         *)
(***************************************************************************)
whitespace == {" ", "\t", "\n"}

\* len(content.split()): the number of maximal runs of non-blank characters
word_count(chars) ==
  Cardinality({i \in DOMAIN chars :
                 /\ chars[i] \notin whitespace
                 /\ (i = 1 \/ chars[i - 1] \in whitespace)})

IntegrityError == Exception("IntegrityError", "NOT NULL constraint failed: stories.title")
NoSplit == Exception("AttributeError", "object has no attribute 'split'")

Row(id, title, content, genre, model_used) ==
  [id |-> id, title |-> title, content |-> content, genre |-> genre,
   model_used |-> model_used, word_count |-> word_count(content.chars),
   is_favorite |-> 0]

\* faulty variant: the id is one more than the largest id in the table (a
\* rowid column without AUTOINCREMENT)
db_save_story_reusing(rows, seq, title, content, genre, model_used) ==
  IF ~IsStr(content) THEN [result |-> Raises(NoSplit), rows |-> rows, seq |-> seq]
  ELSE IF title = None THEN [result |-> Raises(IntegrityError), rows |-> rows, seq |-> seq]
  ELSE LET id == IF rows = <<>> THEN 1
                 ELSE 1 + CHOOSE m \in DOMAIN rows : \A i \in DOMAIN rows : i <= m
       IN  [result |-> Returns(id),
            rows |-> [i \in DOMAIN rows \cup {id} |->
                        IF i = id THEN Row(id, title, content, genre, model_used)
                        ELSE rows[i]],
            seq |-> seq + 1]

\* save_story: yields what it returns or raises, the table and the sequence
db_save_story(rows, seq, title, content, genre, model_used) ==
  IF ~IsStr(content) THEN [result |-> Raises(NoSplit), rows |-> rows, seq |-> seq]
  ELSE IF title = None THEN [result |-> Raises(IntegrityError), rows |-> rows, seq |-> seq]
  ELSE LET id == seq + 1
       IN  [result |-> Returns(id),
            rows |-> [i \in DOMAIN rows \cup {id} |->
                        IF i = id THEN Row(id, title, content, genre, model_used)
                        ELSE rows[i]],
            seq |-> id]

\* get_story: the row as a dict, or None
db_get_story(rows, story_id) ==
  IF story_id \in DOMAIN rows THEN rows[story_id] ELSE None

\* faulty variant: the row is kept and success is reported all the same
db_delete_story_kept(rows, story_id) ==
  [result |-> story_id \in DOMAIN rows, rows |-> rows]

\* delete_story: cursor.rowcount > 0 and the table
db_delete_story(rows, story_id) ==
  [result |-> story_id \in DOMAIN rows,
   rows |-> [i \in DOMAIN rows \ {story_id} |-> rows[i]]]

(***************************************************************************)
(* Database: the timestamp columns, update_story, toggle_favorite and the  *)
(* tables whose rows refer to a story.  The chapters table is created but  *)
(* no method inserts into it, so it stays empty and is not kept.           *)
(***************************************************************************)
\* DEFAULT CURRENT_TIMESTAMP: 'YYYY-MM-DD HH:MM:SS' of the second
current_timestamp(now) == [format |-> "sql", second |-> now]
\* datetime.now().isoformat()
isoformat(now) == [format |-> "iso", second |-> now]

\* the timestamp columns after a statement: an inserted row has both set by
\* default, a deleted row takes its own along
timestamped(rows, old, now) ==
  [i \in DOMAIN rows |->
     IF i \in DOMAIN old THEN old[i]
     ELSE [created_at |-> current_timestamp(now), updated_at |-> current_timestamp(now)]]

\* faulty variant: the word count is left as it was
update_row_stale(row, title, content) ==
  [row EXCEPT !.title = IF bool(title) THEN title ELSE @,
              !.content = IF bool(content) THEN content ELSE @]

\* the SET clause update_story builds from `if title:` and `if content:`
update_row(row, title, content) ==
  [row EXCEPT !.title = IF bool(title) THEN title ELSE @,
              !.content = IF bool(content) THEN content ELSE @,
              !.word_count = IF bool(content) THEN word_count(content.chars) ELSE @]

\* faulty variant: the row is written even when nothing is to be set
db_update_story_touching(rows, times, story_id, title, content, now) ==
  IF story_id \notin DOMAIN rows THEN [result |-> FALSE, rows |-> rows, stamps |-> times]
  ELSE [result |-> bool(title) \/ bool(content),
        rows |-> [rows EXCEPT ![story_id] = update_row(@, title, content)],
        stamps |-> [times EXCEPT ![story_id].updated_at = isoformat(now)]]

\* update_story: cursor.rowcount > 0, the table and its timestamp columns
db_update_story(rows, times, story_id, title, content, now) ==
  IF ~bool(title) /\ ~bool(content)
  THEN [result |-> FALSE, rows |-> rows, stamps |-> times]
  ELSE IF story_id \notin DOMAIN rows
  THEN [result |-> FALSE, rows |-> rows, stamps |-> times]
  ELSE [result |-> TRUE,
        rows |-> [rows EXCEPT ![story_id] = update_row(@, title, content)],
        stamps |-> [times EXCEPT ![story_id].updated_at = isoformat(now)]]

\* toggle_favorite: cursor.rowcount > 0 and the table
db_toggle_favorite(rows, story_id) ==
  IF story_id \notin DOMAIN rows THEN [result |-> FALSE, rows |-> rows]
  ELSE [result |-> TRUE,
        rows |-> [rows EXCEPT ![story_id].is_favorite = IF @ = 1 THEN 0 ELSE 1]]

ForeignKeyError == Exception("IntegrityError", "FOREIGN KEY constraint failed")

\* the story_id column of a related row: NULL (None) or the id of a story
Ref(story_id) == [type |-> "int", value |-> story_id]

\* INSERT of a row that refers to a story: with foreign keys enforced the
\* story has to exist (or the reference be NULL)
db_insert_related(children, seq, rows, enforced, story_id, row) ==
  IF enforced /\ story_id # None /\ story_id.value \notin DOMAIN rows
  THEN [result |-> Raises(ForeignKeyError), rows |-> children, seq |-> seq]
  ELSE [result |-> Returns(seq + 1),
        rows |-> [i \in DOMAIN children \cup {seq + 1} |->
                    IF i = seq + 1 THEN row ELSE children[i]],
        seq |-> seq + 1]

\* save_chat_message
db_save_chat_message(children, seq, rows, enforced, story_id, role, content) ==
  db_insert_related(children, seq, rows, enforced, story_id,
                    [id |-> seq + 1, story_id |-> story_id, role |-> role,
                     content |-> content])

\* save_image
db_save_image(children, seq, rows, enforced, story_id, scene_description, style, image_base64) ==
  db_insert_related(children, seq, rows, enforced, story_id,
                    [id |-> seq + 1, story_id |-> story_id,
                     scene_description |-> scene_description, style |-> style,
                     image_base64 |-> image_base64])

\* FOREIGN KEY (story_id) REFERENCES stories(id) ON DELETE CASCADE: what a
\* DELETE of the story leaves of a table referring to it
on_delete_cascade(children, story_id, deleted, enforced) ==
  IF deleted /\ enforced
  THEN [i \in {j \in DOMAIN children : children[j].story_id # Ref(story_id)} |->
          children[i]]
  ELSE children

\* default of get_all_stories' limit
HistoryLimit == 50

\* ORDER BY created_at DESC: every order of the ids in which no row comes
\* before a row created later (rows of the same second come in any order)
RECURSIVE newest_first(_, _)
newest_first(ids, times) ==
  IF ids = {} THEN {<<>>}
  ELSE UNION {{<<m>> \o rest : rest \in newest_first(ids \ {m}, times)} :
                m \in {i \in ids : \A j \in ids :
                                     times[j].created_at.second <= times[i].created_at.second}}

\* the columns get_all_stories selects
listed_row(row, time) ==
  [id |-> row.id, title |-> row.title, genre |-> row.genre, model_used |-> row.model_used,
   created_at |-> time.created_at, word_count |-> row.word_count,
   is_favorite |-> row.is_favorite]

\* LIMIT ? OFFSET ?
limit_offset(seq, limit, offset) ==
  SubSeq(seq, offset + 1, IF Len(seq) < offset + limit THEN Len(seq) ELSE offset + limit)

\* faulty variant: the oldest rows come first
db_get_all_stories_oldest(rows, times, limit, offset) ==
  {[i \in DOMAIN limit_offset(order, limit, offset) |->
      listed_row(rows[order[Len(order) + 1 - (offset + i)]],
                 times[order[Len(order) + 1 - (offset + i)]])] :
     order \in newest_first(DOMAIN rows, times)}

\* get_all_stories: the lists it can return
db_get_all_stories(rows, times, limit, offset) ==
  {[i \in DOMAIN limit_offset(order, limit, offset) |->
      listed_row(rows[order[offset + i]], times[order[offset + i]])] :
     order \in newest_first(DOMAIN rows, times)}

(***************************************************************************)
(* LLMService.generate_story as the routes call it: one call from its      *)
(* arguments and from what the provider does (`provider.first` and         *)
(* `provider.second` are the replies to the two completion calls,          *)
(* `provider.rnds[i]` the random numbers handed to the i-th tool call).    *)
(* Yields what the call returns or raises and the provider calls made.     *)
(***************************************************************************)
NoGet == Exception("AttributeError", "'str' object has no attribute 'get'")

\* one iteration of the loop of _handle_tool_calls and the iterations after it
tool_iteration(tool_call, result, rest) ==
  IF result.raised THEN result
  ELSE IF rest.raised THEN rest
  ELSE Returns(<<tool_response(tool_call, result.value)>> \o rest.value)

\* the loop of _handle_tool_calls from the i-th tool call on: the tool
\* responses, or the exception that ends the loop
RECURSIVE run_tool_calls(_, _, _)
run_tool_calls(tool_calls, rnds, i) ==
  IF i > Len(tool_calls) THEN Returns(<<>>)
  ELSE IF json_loads(tool_calls[i].function.arguments).raised
  THEN json_loads(tool_calls[i].function.arguments)
  ELSE tool_iteration(tool_calls[i],
                      execute_tool(tool_calls[i].function.name,
                                   json_loads(tool_calls[i].function.arguments).value,
                                   rnds[i]),
                      run_tool_calls(tool_calls, rnds, i + 1))

\* a call of litellm.completion and what came of it
completion_call(kwargs, reply) ==
  [service |-> "completion", kwargs |-> kwargs, reply |-> reply]

\* the first completion call of generate_story
first_call(msgs, model, tools, reply) ==
  completion_call(IF tools # <<>>
                  THEN [model |-> model, messages |-> msgs, tools |-> tools,
                        tool_choice |-> "auto"]
                  ELSE [model |-> model, messages |-> msgs],
                  reply)

\* the completion call of _handle_tool_calls
second_call(msgs, message, responses, model, tools, reply) ==
  completion_call([model |-> model,
                   messages |-> extend_messages(msgs, message, responses),
                   tools |-> tools],
                  reply)

\* _handle_tool_calls, `responses` being what its loop came to; an exception
\* in it is caught by generate_story
handle_tool_calls(message, msgs, model, tools, provider, responses) ==
  IF responses.raised
  THEN [result |-> Returns(failure_outcome(responses.exception, model)),
        calls |-> <<first_call(msgs, model, tools, provider.first)>>]
  ELSE [result |-> IF provider.second.raised
                   THEN Returns(failure_outcome(provider.second.exception, model))
                   ELSE Returns(tool_outcome(provider.second.value, message, model)),
        calls |-> <<first_call(msgs, model, tools, provider.first),
                    second_call(msgs, message, responses.value, model, tools,
                                provider.second)>>]

\* the try block of generate_story
try_completion(msgs, model, tools, provider) ==
  IF provider.first.raised
  THEN [result |-> Returns(failure_outcome(provider.first.exception, model)),
        calls |-> <<first_call(msgs, model, tools, provider.first)>>]
  ELSE IF tools # <<>> /\ has_tool_calls(provider.first.value)
  THEN handle_tool_calls(provider.first.value.message, msgs, model, tools, provider,
                         run_tool_calls(provider.first.value.message.tool_calls,
                                        provider.rnds, 1))
  ELSE [result |-> Returns(direct_outcome(provider.first.value, model)),
        calls |-> <<first_call(msgs, model, tools, provider.first)>>]

generate_story(base, prompt, history, model, genre, tools, provider) ==
  IF \E i \in DOMAIN history : ~IsDict(history[i])
  THEN [result |-> Raises(NoGet), calls |-> <<>>]
  ELSE try_completion(build_messages(base, prompt, history, genre), model, tools, provider)

(***************************************************************************)
(* app.py: the routes.  `data` is request.json; a route yields the         *)
(* response it returns, the provider calls it made and, for the database   *)
(* routes, the table it leaves.                                            *)
(***************************************************************************)
jsonify(obj, status) ==
  [status |-> status, mimetype |-> "application/json", body |-> json_dumps(obj)]

\* `except Exception as e: return jsonify({"error": str(e)}), 500`
internal_error(e) == jsonify([error |-> str(e)], 500)

\* data.get(...) on a body that is no JSON object
NoDataGet == Exception("AttributeError", "'NoneType' object has no attribute 'get'")

\* GET /api/models
api_get_models(keys) == jsonify([models |-> get_available_models(keys)], 200)

\* the route's arguments for generate_story, from the request body
generate_story_of(base, data, provider) ==
  generate_story(base, dict_get(data, "prompt", PlainText("")),
                 dict_get(data, "history", <<>>), dict_get(data, "model", "gpt-4o-mini"),
                 dict_get(data, "genre", "fantasy"), get_tools, provider)

\* faulty variant: the outcome of a failed generation is answered as a fault
generation_response_failing(call) ==
  [response |-> IF call.result.raised THEN internal_error(call.result.exception)
                ELSE IF ~call.result.value.success
                THEN jsonify([error |-> call.result.value.error], 500)
                ELSE jsonify(call.result.value, 200),
   calls |-> call.calls]

\* `return jsonify(result)`, or the except branch when generate_story raised
generation_response(call) ==
  [response |-> IF call.result.raised THEN internal_error(call.result.exception)
                ELSE jsonify(call.result.value, 200),
   calls |-> call.calls]

\* POST /api/story/generate
api_generate_story(base, data, provider) ==
  IF ~IsDict(data) THEN [response |-> internal_error(NoDataGet), calls |-> <<>>]
  ELSE IF ~bool(dict_get(data, "prompt", PlainText("")))
  THEN [response |-> jsonify([error |-> "Prompt is required"], 400), calls |-> <<>>]
  ELSE generation_response(generate_story_of(base, data, provider))

\* POST /api/story/illustrate
api_illustrate_story(api_key, data, reply) ==
  IF ~IsDict(data) THEN [response |-> internal_error(NoDataGet), calls |-> <<>>]
  ELSE
    LET scene == dict_get(data, "scene_description", PlainText(""))
        style == dict_get(data, "style", PlainText("digital fantasy art, vibrant colors"))
    IN  IF ~bool(scene)
        THEN [response |-> jsonify([error |-> "Scene description is required"], 400),
              calls |-> <<>>]
        ELSE LET call == generate_illustration(api_key, scene, style, reply)
             IN  [response |-> jsonify(call.result.value, 200), calls |-> call.calls]

\* POST /api/story/narrate
api_narrate_story(api_key, data, reply) ==
  IF ~IsDict(data) THEN [response |-> internal_error(NoDataGet), calls |-> <<>>]
  ELSE
    LET text == dict_get(data, "text", PlainText(""))
        voice == dict_get(data, "voice", PlainText("onyx"))
    IN  IF ~bool(text)
        THEN [response |-> jsonify([error |-> "Text is required"], 400), calls |-> <<>>]
        ELSE LET call == generate_narration(api_key, text, voice, reply)
             IN  [response |-> IF call.result.raised
                               THEN internal_error(call.result.exception)
                               ELSE jsonify([audio_base64 |-> call.result.value,
                                             format |-> "mp3"], 200),
                  calls |-> call.calls]

\* POST /api/story/save
api_save_story(rows, seq, data) ==
  IF ~IsDict(data)
  THEN [response |-> internal_error(NoDataGet), rows |-> rows, seq |-> seq, writes |-> <<>>]
  ELSE
    LET title == dict_get(data, "title", PlainText("Untitled Story"))
        content == dict_get(data, "content", PlainText(""))
        genre == dict_get(data, "genre", "general")
        model_used == dict_get(data, "model_used", "unknown")
    IN  IF ~bool(content)
        THEN [response |-> jsonify([error |-> "Content is required"], 400),
              rows |-> rows, seq |-> seq, writes |-> <<>>]
        ELSE LET saved == db_save_story(rows, seq, title, content, genre, model_used)
             IN  IF saved.result.raised
                 THEN [response |-> internal_error(saved.result.exception),
                       rows |-> rows, seq |-> seq, writes |-> <<>>]
                 ELSE [response |-> jsonify([success |-> TRUE,
                                             story_id |-> saved.result.value,
                                             message |-> "Story saved successfully"], 200),
                       rows |-> saved.rows, seq |-> saved.seq,
                       writes |-> <<[statement |-> "INSERT", id |-> saved.result.value]>>]

\* GET /api/story/<int:story_id>
api_get_story(rows, story_id) ==
  LET story == db_get_story(rows, story_id)
  IN  IF story # None THEN jsonify(story, 200)
      ELSE jsonify([error |-> "Story not found"], 404)

\* DELETE /api/story/<int:story_id>
api_delete_story(rows, story_id) ==
  LET deleted == db_delete_story(rows, story_id)
  IN  [response |-> IF deleted.result
                    THEN jsonify([success |-> TRUE, message |-> "Story deleted"], 200)
                    ELSE jsonify([error |-> "Story not found"], 404),
       rows |-> deleted.rows,
       writes |-> IF deleted.result THEN <<[statement |-> "DELETE", id |-> story_id]>>
                  ELSE <<>>]

\* GET /api/story/history: the responses it can give
api_get_story_history(rows, times) ==
  {jsonify([stories |-> listed], 200) :
     listed \in db_get_all_stories(rows, times, HistoryLimit, 0)}

\* POST /api/story/generate/stream up to `return Response(generate(), ...)`:
\* the response, and whether a generator is left to be run
api_generate_story_stream(data) ==
  IF ~IsDict(data) THEN [response |-> internal_error(NoDataGet), streaming |-> FALSE]
  ELSE
    LET prompt == dict_get(data, "prompt", PlainText(""))
    IN  IF ~bool(prompt)
        THEN [response |-> jsonify([error |-> "Prompt is required"], 400),
              streaming |-> FALSE]
        ELSE [response |-> [status |-> 200, mimetype |-> "text/event-stream"],
              streaming |-> TRUE]

\* f"data: {json.dumps({'content': chunk})}\n\n"
sse_content(chunk) == [data |-> json_dumps([content |-> chunk])]
\* "data: [DONE]\n\n"
sse_done == [data |-> PlainText("[DONE]")]
\* f"[Error: {str(e)}]"
error_fragment(e) == PlainText("[Error: " \o str(e) \o "]")

\* faulty variant: every chunk is relayed, empty or not
relay_every(events, content) == Append(events, sse_content(content))

\* faulty variant: a fragment is written twice
relay_twice(events, content) ==
  IF bool(content) THEN events \o <<sse_content(content), sse_content(content)>> ELSE events

\* `if chunk.choices[0].delta.content: yield ...` and the event written for it
relay(events, content) ==
  IF bool(content) THEN Append(events, sse_content(content)) ELSE events

\* faulty variant: a failure of the stream is not relayed
relay_error_silent(events, e) == events

\* `except Exception as e: yield f"[Error: {str(e)}]"` and the event written for it
relay_error(events, e) == Append(events, sse_content(error_fragment(e)))

(***************************************************************************)
(* Bounds and inputs of AppSpec.                                           *)
(***************************************************************************)
\* most stories saved in one behaviour
MaxStories == 2
\* most chunks one provider stream yields
MaxChunks == 3

\* an API key of the environment: not set, or set
KeyInputs == {None, PlainText("sk-test")}
CredentialInputs ==
  {[openai |-> o, google |-> g, anthropic |-> a] :
     o \in KeyInputs, g \in KeyInputs, a \in KeyInputs}

\* request.json of a generation request: no object, no prompt, an empty or
\* null prompt, a prompt alone, every field, a history entry that is no object
GenerateBodies ==
  { None,
    Dict([model |-> "gpt-4o"]),
    Dict([prompt |-> PlainText("")]),
    Dict([prompt |-> None, genre |-> "horror"]),
    Dict([prompt |-> PlainText("Tell me a story")]),
    Dict([prompt |-> PlainText("Continue"), history |-> <<AssistantEntry, BareEntry>>,
          model |-> "gpt-4o", genre |-> "noir"]),
    Dict([prompt |-> PlainText("Continue"), history |-> <<TextEntry>>]) }

IllustrateBodies ==
  { None,
    Dict([style |-> PlainText("watercolor")]),
    Dict([scene_description |-> PlainText("")]),
    Dict([scene_description |-> PlainText("A brave knight facing a dragon")]),
    Dict([scene_description |-> PlainText("A brave knight facing a dragon"),
          style |-> PlainText("watercolor")]) }

ShortText == Runs(<< <<"O", 1>>, <<"n", 1>>, <<"c", 1>>, <<"e", 1>> >>)
LongText == Runs(<< <<"a", NarrationLimit>>, <<"b", 1>> >>)
\* a text of exactly the limit
FullText == Runs(<< <<"a", NarrationLimit - 1>>, <<"b", 1>> >>)

\* voices: left out, a named one, a named one in another case, an unknown
\* one, null, and a value that is no text
NarrateBodies ==
  { None,
    Dict([voice |-> PlainText("nova")]),
    Dict([text |-> Runs(<<>>), voice |-> PlainText("nova")]),
    Dict([text |-> ShortText]),
    Dict([text |-> ShortText, voice |-> PlainText("nova")]),
    Dict([text |-> ShortText, voice |-> PlainText("Nova")]),
    Dict([text |-> ShortText, voice |-> PlainText("robot")]),
    Dict([text |-> ShortText, voice |-> None]),
    Dict([text |-> ShortText, voice |-> List(<<PlainText("nova")>>)]),
    Dict([text |-> LongText, voice |-> PlainText("shimmer")]),
    Dict([text |-> FullText, voice |-> PlainText("echo")]) }

\* content: left out, empty, given (alone and with every field), with a null
\* title, and a content that is no text
SaveBodies ==
  { None,
    Dict([title |-> PlainText("My Epic Adventure")]),
    Dict([title |-> PlainText("My Epic Adventure"), content |-> Str(<<>>)]),
    Dict([content |-> Str(<<"o", "n", "c", "e", " ", "u", "p", "o", "n">>)]),
    Dict([title |-> PlainText("My Epic Adventure"), content |-> Str(<<"a", " ", " ", "d", "r", "a", "g", "o", "n", "\n", "s", "p", "o", "k", "e">>),
          genre |-> "fantasy", model_used |-> "gpt-4o-mini"]),
    Dict([title |-> None, content |-> Str(<<"o", "n", "c", "e", " ", "u", "p", "o", "n">>)]),
    Dict([content |-> List(<<PlainText("Once")>>)]) }

StoryIds == 1 .. (MaxStories + 1)

\* the tool calls of a first response
AppToolCallInputs ==
  { <<>>,
    <<ToolCall("call_1", [name |-> "suggest_plot_twist",
                          arguments |-> json_dumps([genre |-> Str(<<"s", "c", "i", "-", "f", "i">>)])])>>,
    <<ToolCall("call_1", [name |-> "suggest_plot_twist",
                          arguments |-> json_dumps([current_situation |-> Str(<<"h", "e", "r", "o">>)])])>> }

\* what the completion provider and the random generator do during one
\* generate_story call
GenerateProviders ==
  UNION {
    {[first |-> first, second |-> second, rnds |-> rnds] :
       second \in Replies({<<>>}),
       rnds \in IF first.raised \/ first.value.message.tool_calls = <<>>
                THEN {<<>>}
                ELSE LET function == first.value.message.tool_calls[1].function
                     IN  {<<rnd>> : rnd \in execute_rnd(function.name,
                                                         function.arguments.object, {0})}}
    : first \in Replies(AppToolCallInputs)}

ImageReplies ==
  { Returns([b64_json |-> "iVBORw0KGgo=", revised_prompt |-> PlainText("A knight and a dragon")]),
    Raises(ProviderError("BadRequestError", <<"E", "r", "r", "o", "r", " ", "c", "o", "d", "e", ":", " ", "4", "0", "0", " ", "-", " ", "C", "o", "n", "t", "e", "n", "t", "_", "P", "o", "l", "i", "c", "y", "_", "V", "i", "o", "l", "a", "t", "i", "o", "n">>)),
    Raises(ProviderError("RateLimitError", <<"R", "a", "t", "e", "_", "l", "i", "m", "i", "t", " ", "r", "e", "a", "c", "h", "e", "d", " ", "f", "o", "r", " ", "d", "a", "l", "l", "-", "e", "-", "3">>)),
    Raises(ProviderError("APITimeoutError", <<"R", "e", "q", "u", "e", "s", "t", " ", "t", "i", "m", "e", "d", " ", "o", "u", "t", ".">>)),
    Raises(ProviderError("BadRequestError", <<"r", "a", "t", "e", "_", "l", "i", "m", "i", "t", ";", "c", "o", "n", "t", "e", "n", "t", "_", "p", "o", "l", "i", "c", "y", "_", "v", "i", "o", "l", "a", "t", "i", "o", "n">>)) }

AudioReplies ==
  { Returns([content |-> "ID3"]),
    Raises(Exception("APIConnectionError", "Connection error.")) }

\* what completion(stream=True) returns: the iterator over the chunks
ProviderStream == [stream |-> TRUE]

\* delta.content of a chunk: absent, empty, or a fragment
ChunkInputs == {None, PlainText(""), PlainText("Once"), PlainText("[DONE]")}

(***************************************************************************)
(* AppSpec: the Flask application serving one request at a time.           *)
(***************************************************************************)
AppInit ==
  /\ credentials \in CredentialInputs
  /\ AppIdle
  /\ calls = NoCalls
  /\ DbIdle
  /\ foreign_keys = FALSE
  /\ ServiceIdle
  /\ tool_input = NoCall
  /\ tool_rnd = NoRnd
  /\ tool_output = Pending

Request(route, data) == [route |-> route, data |-> data]

GetModels ==
  /\ http_pc = "idle"
  /\ http_request' = [route |-> "GET /api/models"]
  /\ http_response' = api_get_models(credentials)
  /\ http_pc' = "responded"
  /\ UNCHANGED <<credentials, stories, story_seq, provider_calls, db_writes,
                 stream_chunks, stream_events, tool_vars, llm_vars, conc_vars, db_vars>>

PostGenerate ==
  /\ http_pc = "idle"
  /\ \E data \in GenerateBodies, provider \in GenerateProviders :
       LET served == api_generate_story(system_prompt, data, provider)
       IN  /\ http_request' = Request("POST /api/story/generate", data)
           /\ http_response' = served.response
           /\ provider_calls' = served.calls
  /\ http_pc' = "responded"
  /\ UNCHANGED <<credentials, stories, story_seq, db_writes, stream_chunks, stream_events,
                 tool_vars, llm_vars, conc_vars, db_vars>>

PostIllustrate ==
  /\ http_pc = "idle"
  /\ \E data \in IllustrateBodies, reply \in ImageReplies :
       LET served == api_illustrate_story(credentials.openai, data, reply)
       IN  /\ http_request' = Request("POST /api/story/illustrate", data)
           /\ http_response' = served.response
           /\ provider_calls' = served.calls
  /\ http_pc' = "responded"
  /\ UNCHANGED <<credentials, stories, story_seq, db_writes, stream_chunks, stream_events,
                 tool_vars, llm_vars, conc_vars, db_vars>>

PostNarrate ==
  /\ http_pc = "idle"
  /\ \E data \in NarrateBodies, reply \in AudioReplies :
       LET served == api_narrate_story(credentials.openai, data, reply)
       IN  /\ http_request' = Request("POST /api/story/narrate", data)
           /\ http_response' = served.response
           /\ provider_calls' = served.calls
  /\ http_pc' = "responded"
  /\ UNCHANGED <<credentials, stories, story_seq, db_writes, stream_chunks, stream_events,
                 tool_vars, llm_vars, conc_vars, db_vars>>

PostSave ==
  /\ http_pc = "idle"
  /\ story_seq < MaxStories
  /\ \E data \in SaveBodies :
       LET served == api_save_story(stories, story_seq, data)
       IN  /\ http_request' = Request("POST /api/story/save", data)
           /\ http_response' = served.response
           /\ stories' = served.rows
           /\ stamps' = timestamped(served.rows, stamps, clock)
           /\ story_seq' = served.seq
           /\ db_writes' = served.writes
  /\ http_pc' = "responded"
  /\ UNCHANGED <<credentials, provider_calls, stream_chunks, stream_events,
                 clock, images, image_seq, chat_history, chat_seq, foreign_keys,
                 saved_ids, db_result, tool_vars, llm_vars, conc_vars>>

GetStory ==
  /\ http_pc = "idle"
  /\ \E story_id \in StoryIds :
       /\ http_request' = [route |-> "GET /api/story/<id>", story_id |-> story_id]
       /\ http_response' = api_get_story(stories, story_id)
  /\ http_pc' = "responded"
  /\ UNCHANGED <<credentials, stories, story_seq, provider_calls, db_writes,
                 stream_chunks, stream_events, tool_vars, llm_vars, conc_vars, db_vars>>

DeleteStory ==
  /\ http_pc = "idle"
  /\ \E story_id \in StoryIds :
       LET served == api_delete_story(stories, story_id)
       IN  /\ http_request' = [route |-> "DELETE /api/story/<id>", story_id |-> story_id]
           /\ http_response' = served.response
           /\ stories' = served.rows
           /\ stamps' = timestamped(served.rows, stamps, clock)
           /\ db_writes' = served.writes
  /\ http_pc' = "responded"
  /\ UNCHANGED <<credentials, story_seq, provider_calls, stream_chunks, stream_events,
                 clock, images, image_seq, chat_history, chat_seq, foreign_keys,
                 saved_ids, db_result, tool_vars, llm_vars, conc_vars>>

GetStoryHistory ==
  /\ http_pc = "idle"
  /\ http_request' = [route |-> "GET /api/story/history"]
  /\ http_response' \in api_get_story_history(stories, stamps)
  /\ http_pc' = "responded"
  /\ UNCHANGED <<credentials, stories, story_seq, provider_calls, db_writes,
                 stream_chunks, stream_events, tool_vars, llm_vars, conc_vars, db_vars>>

\* the route of the stream: it answers, or returns the response whose body
\* is the generator (nothing of generate_story_stream has run yet)
PostGenerateStream ==
  /\ http_pc = "idle"
  /\ \E data \in GenerateBodies :
       LET served == api_generate_story_stream(data)
       IN  /\ http_request' = Request("POST /api/story/generate/stream", data)
           /\ http_response' = served.response
           /\ http_pc' = IF served.streaming THEN "stream_start" ELSE "responded"
  /\ UNCHANGED <<credentials, stories, story_seq, provider_calls, db_writes,
                 stream_chunks, stream_events, tool_vars, llm_vars, conc_vars, db_vars>>

\* the generator is started: generate_story_stream builds its messages
\* (outside its try) and opens the provider stream (inside it)
StreamStart ==
  /\ http_pc = "stream_start"
  /\ LET data == http_request.data
         history == dict_get(data, "history", <<>>)
     IN  IF \E i \in DOMAIN history : ~IsDict(history[i])
         THEN /\ http_pc' = "stream_broken"
              /\ UNCHANGED <<provider_calls, stream_chunks, stream_events>>
         ELSE \E reply \in {Returns(ProviderStream)} \cup {Raises(e) : e \in ErrorInputs} :
                /\ provider_calls' =
                     <<completion_call(
                         [model |-> dict_get(data, "model", "gpt-4o-mini"),
                          messages |-> build_messages(system_prompt, data.items.prompt,
                                                      history,
                                                      dict_get(data, "genre", "fantasy")),
                          stream |-> TRUE],
                         reply)>>
                /\ IF reply.raised
                   THEN /\ stream_chunks' = Append(stream_chunks, reply)
                        /\ stream_events' = relay_error(stream_events, reply.exception)
                        /\ http_pc' = "stream_after"
                   ELSE /\ http_pc' = "stream_iter"
                        /\ UNCHANGED <<stream_chunks, stream_events>>
  /\ UNCHANGED <<credentials, stories, story_seq, http_request, http_response, db_writes,
                 tool_vars, llm_vars, conc_vars, db_vars>>

\* the provider stream yields a chunk
StreamChunk ==
  /\ http_pc = "stream_iter"
  /\ Len(stream_chunks) < MaxChunks
  /\ \E content \in ChunkInputs :
       /\ stream_chunks' = Append(stream_chunks, Returns(content))
       /\ stream_events' = relay(stream_events, content)
  /\ UNCHANGED <<credentials, stories, story_seq, http_pc, http_request, http_response,
                 provider_calls, db_writes, tool_vars, llm_vars, conc_vars, db_vars>>

\* the provider stream raises
StreamFail ==
  /\ http_pc = "stream_iter"
  /\ \E e \in ErrorInputs :
       /\ stream_chunks' = Append(stream_chunks, Raises(e))
       /\ stream_events' = relay_error(stream_events, e)
  /\ http_pc' = "stream_after"
  /\ UNCHANGED <<credentials, stories, story_seq, http_request, http_response,
                 provider_calls, db_writes, tool_vars, llm_vars, conc_vars, db_vars>>

\* the provider stream is exhausted
StreamExhausted ==
  /\ http_pc = "stream_iter"
  /\ http_pc' = "stream_after"
  /\ UNCHANGED <<credentials, stories, story_seq, http_request, http_response,
                 provider_calls, db_writes, stream_chunks, stream_events,
                 tool_vars, llm_vars, conc_vars, db_vars>>

\* generate_story_stream has returned: generate() writes the sentinel
StreamDone ==
  /\ http_pc = "stream_after"
  /\ stream_events' = Append(stream_events, sse_done)
  /\ http_pc' = "responded"
  /\ UNCHANGED <<credentials, stories, story_seq, http_request, http_response,
                 provider_calls, db_writes, stream_chunks, tool_vars, llm_vars, conc_vars, db_vars>>

\* the response is with the client: the next request can be served
Finish ==
  /\ http_pc \in {"responded", "stream_broken"}
  /\ http_pc' = "idle"
  /\ http_request' = NoRequest
  /\ http_response' = NoHttpResponse
  /\ provider_calls' = <<>>
  /\ db_writes' = <<>>
  /\ stream_chunks' = <<>>
  /\ stream_events' = <<>>
  /\ UNCHANGED <<credentials, stories, story_seq, tool_vars, llm_vars, conc_vars, db_vars>>

AppNext ==
  \/ GetModels
  \/ PostGenerate
  \/ PostGenerateStream
  \/ StreamStart
  \/ StreamChunk
  \/ StreamFail
  \/ StreamExhausted
  \/ StreamDone
  \/ PostIllustrate
  \/ PostNarrate
  \/ PostSave
  \/ GetStoryHistory
  \/ GetStory
  \/ DeleteStory
  \/ Finish

AppSpec == AppInit /\ [][AppNext]_vars

(***************************************************************************)
(* Properties of the streaming path (AppSpec).                             *)
(***************************************************************************)
StreamRoute == "POST /api/story/generate/stream"
\* a stream whose generator has been started
Streaming ==
  /\ http_request.route = StreamRoute
  /\ http_pc \in {"stream_iter", "stream_after", "responded"}
  /\ http_response.status = 200
StreamFailed == \E i \in DOMAIN stream_chunks : stream_chunks[i].raised
\* the generator and generate() have both returned
StreamClosed == Streaming /\ http_pc = "responded"

\* the contents of the chunks yielded so far
Yielded ==
  LET yields == SelectSeq(stream_chunks, LAMBDA c : ~c.raised)
  IN  [i \in DOMAIN yields |-> yields[i].value]
IsFragment(content) == "text" \in DOMAIN content
NonEmpty(content) == IsFragment(content) /\ content.string # ""
\* the event that carries a fragment: JSON text of the object {content: fragment}
EventOf(fragment) == [data |-> [text |-> "json", object |-> [content |-> fragment]]]
EventsOf(fragments) == [i \in DOMAIN fragments |-> EventOf(fragments[i])]
Sentinel == [data |-> [text |-> "plain", string |-> "[DONE]"]]
SentinelCount == Cardinality({i \in DOMAIN stream_events : stream_events[i] = Sentinel})

\* C12 as stated: while the provider stream has not failed, the events
\* written are exactly the events of every content fragment yielded (empty
\* ones included), in order, and once the stream is closed the sentinel
\* follows them, once and last.
C12_AsStated ==
  (Streaming /\ ~StreamFailed) =>
    stream_events = EventsOf(SelectSeq(Yielded, IsFragment))
                    \o (IF StreamClosed THEN <<Sentinel>> ELSE <<>>)

\* C12: while the provider stream has not failed, the events written are
\* exactly the events of the non-empty content fragments yielded so far,
\* each carrying its fragment unchanged, in arrival order, none dropped,
\* duplicated or merged (a chunk whose content is empty or absent writes no
\* event); once the stream is closed the sentinel [DONE] follows them,
\* exactly once and as the last event.
C12_FragmentsRelayed ==
  /\ (Streaming /\ ~StreamFailed) =>
       stream_events = EventsOf(SelectSeq(Yielded, NonEmpty))
                       \o (IF StreamClosed THEN <<Sentinel>> ELSE <<>>)
  /\ StreamClosed =>
       /\ SentinelCount = 1
       /\ stream_events[Len(stream_events)] = Sentinel
  /\ (Streaming /\ ~StreamClosed) => SentinelCount = 0

C12_Witness ==
  /\ StreamClosed
  /\ stream_chunks = <<Returns(PlainText("Once")), Returns(PlainText("")),
                       Returns(PlainText("[DONE]"))>>
  /\ stream_events = <<EventOf(PlainText("Once")), EventOf(PlainText("[DONE]")), Sentinel>>

\* C13: if the provider raises when the stream is opened or after any number
\* of chunks, the generator does not raise: the events of the non-empty
\* fragments received before the failure are written, then exactly one event
\* whose fragment is "[Error: <exception text>]"; the failure is the last
\* thing the provider stream did, so no fragment of provider content follows
\* the error fragment (only the sentinel, once the stream is closed).
C13_StreamFailure ==
  (http_request.route = StreamRoute /\ StreamFailed) =>
    LET k == Len(stream_chunks)
        e == stream_chunks[k].exception
        before == SelectSeq(SubSeq(Yielded, 1, k - 1), NonEmpty)
    IN  /\ stream_chunks[k].raised
        /\ \A i \in 1 .. (k - 1) : ~stream_chunks[i].raised
        /\ http_pc \in {"stream_after", "responded"}
        /\ http_response.status = 200
        /\ stream_events = EventsOf(before)
                           \o <<EventOf([text |-> "plain",
                                         string |-> "[Error: " \o e.message \o "]"])>>
                           \o (IF http_pc = "responded" THEN <<Sentinel>> ELSE <<>>)

C13_Witness ==
  /\ StreamClosed
  /\ Len(stream_chunks) = 3
  /\ stream_chunks[1] = Returns(PlainText("Once"))
  /\ stream_chunks[2] = Returns(None)
  /\ stream_chunks[3].raised
  /\ stream_events =
       <<EventOf(PlainText("Once")),
         EventOf(PlainText("[Error: litellm.RateLimitError: quota exceeded]")),
         Sentinel>>

(***************************************************************************)
(* Properties of the routes (AppSpec).                                     *)
(***************************************************************************)
ValidatedRoutes ==
  {"POST /api/story/generate", "POST /api/story/generate/stream",
   "POST /api/story/illustrate", "POST /api/story/narrate", "POST /api/story/save"}

RequiredField(route) ==
  CASE route \in {"POST /api/story/generate", "POST /api/story/generate/stream"} -> "prompt"
    [] route = "POST /api/story/illustrate" -> "scene_description"
    [] route = "POST /api/story/narrate" -> "text"
    [] route = "POST /api/story/save" -> "content"

\* the body is a JSON object
IsObject(data) == data.type = "dict"
\* the value a body gives a field: absent, null and "" are no value
HasValue(data, field) ==
  /\ field \in DOMAIN data.items
  /\ data.items[field] \notin {None, PlainText(""), Str(<<>>), Runs(<<>>)}

\* the request carries no value for the field its route requires
LacksRequiredField(request) ==
  ~IsObject(request.data) \/ ~HasValue(request.data, RequiredField(request.route))

Answered == http_pc # "idle" /\ http_response # NoHttpResponse

\* C14: a request to one of the five routes whose required field is missing
\* or empty is answered with HTTP 400, and no provider call and no database
\* write is made for it.
C14_AsStated ==
  (Answered /\ http_request.route \in ValidatedRoutes /\ LacksRequiredField(http_request)) =>
    /\ http_response.status = 400
    /\ provider_calls = <<>>
    /\ db_writes = <<>>

\* the same for bodies that are JSON objects (what the routes' own checks cover)
ObjectBodiesValidated ==
  (Answered /\ http_request.route \in ValidatedRoutes /\ IsObject(http_request.data)
     /\ ~HasValue(http_request.data, RequiredField(http_request.route))) =>
    /\ http_response.status = 400
    /\ provider_calls = <<>>
    /\ db_writes = <<>>

\* no request that lacks its required field reaches a provider or the database
NoWorkWithoutRequiredField ==
  (Answered /\ http_request.route \in ValidatedRoutes /\ LacksRequiredField(http_request)) =>
    /\ provider_calls = <<>>
    /\ db_writes = <<>>

ProviderFailed == \E i \in DOMAIN provider_calls : provider_calls[i].reply.raised
LastCall == provider_calls[Len(provider_calls)]
\* the decoded JSON body of the response
Body == http_response.body.object

Stored(story_id) == story_id \in DOMAIN stories
NotFound == jsonify([error |-> "Story not found"], 404)
\* a step that serves DELETE /api/story/<id>
DeleteServed == http_pc = "idle" /\ http_request'.route = "DELETE /api/story/<id>"
\* a step that serves POST /api/story/save and stores the story
SaveServed ==
  /\ http_pc = "idle"
  /\ http_request'.route = "POST /api/story/save"
  /\ http_response'.status = 200

\* C16: after any sequence of save and delete requests, GET and DELETE on
\* /api/story/<id> answer 404 exactly when no story with that id is stored: a
\* stored id yields the story (GET) or success (DELETE, after which the id is
\* no longer stored, every other id untouched), a saved id is stored, and an
\* id that was handed out and is no longer stored is never stored again, so
\* every later GET or DELETE of a deleted id answers 404.
C16_NotFoundExactly ==
  /\ [](DOMAIN stories \subseteq 1 .. story_seq)
  /\ []((Answered /\ http_request.route = "GET /api/story/<id>") =>
          http_response = IF Stored(http_request.story_id)
                          THEN jsonify(stories[http_request.story_id], 200)
                          ELSE NotFound)
  /\ [][DeleteServed =>
          /\ http_response' = IF Stored(http_request'.story_id)
                              THEN jsonify([success |-> TRUE, message |-> "Story deleted"], 200)
                              ELSE NotFound
          /\ DOMAIN stories' = DOMAIN stories \ {http_request'.story_id}
          /\ \A id \in DOMAIN stories' : stories'[id] = stories[id]]_vars
  /\ [][SaveServed =>
          /\ http_response'.body.object.story_id = story_seq + 1
          /\ story_seq' = story_seq + 1
          /\ DOMAIN stories' = DOMAIN stories \cup {story_seq + 1}
          /\ \A id \in DOMAIN stories : stories'[id] = stories[id]]_vars
  /\ [][\A id \in 1 .. story_seq : ~Stored(id) => id \notin DOMAIN stories']_vars

\* a GET of a deleted id answers 404 while a later story is stored
C16_Witness ==
  /\ Answered
  /\ http_request.route = "GET /api/story/<id>"
  /\ http_request.story_id = 1
  /\ story_seq = 2
  /\ DOMAIN stories = {2}
  /\ http_response = NotFound

NamedVoices ==
  {PlainText("alloy"), PlainText("echo"), PlainText("fable"),
   PlainText("onyx"), PlainText("nova"), PlainText("shimmer")}
\* the voice the request hands to generate_narration
RequestedVoice ==
  IF "voice" \in DOMAIN http_request.data.items
  THEN http_request.data.items.voice
  ELSE PlainText("onyx")
SpeechCalls == {i \in DOMAIN provider_calls : provider_calls[i].service = "audio.speech.create"}

\* C17: the voice of every call sent to the audio provider is one of the six
\* named voices (alloy, echo, fable, onyx, nova, shimmer): the requested
\* voice when it is one of them, otherwise "onyx".
C17_VoiceSent ==
  \A i \in SpeechCalls :
    LET sent == provider_calls[i].kwargs.voice
    IN  /\ sent \in NamedVoices
        /\ RequestedVoice \in NamedVoices => sent = RequestedVoice
        /\ RequestedVoice \notin NamedVoices => sent = PlainText("onyx")

\* an unknown voice was requested and "onyx" was sent
C17_Witness ==
  /\ Answered
  /\ http_request.route = "POST /api/story/narrate"
  /\ IsObject(http_request.data)
  /\ RequestedVoice = PlainText("robot")
  /\ SpeechCalls = {1}
  /\ provider_calls[1].kwargs.voice = PlainText("onyx")
  /\ http_response.status = 200

\* the credential a provider's models are listed under
Configured(provider) ==
  LET key == CASE provider = "OpenAI" -> credentials.openai
               [] provider = "Google" -> credentials.google
               [] provider = "Anthropic" -> credentials.anthropic
  IN  key # None /\ key # PlainText("")
Providers == {"OpenAI", "Google", "Anthropic"}
Catalogue == openai_models \o google_models \o anthropic_models
ModelsAnswered == Answered /\ http_request.route = "GET /api/models"
Listed == http_response.body.object.models
IsListedModel(m) == \E i \in DOMAIN Listed : Listed[i] = m
IsConfiguredModel(m) == Configured(m.provider)

\* C18 as stated: for every combination of configured credentials the list
\* contains a model only if the credential of its provider is configured, and
\* contains all models of every configured provider.
C18_AsStated ==
  ModelsAnswered =>
    /\ \A i \in DOMAIN Listed : Configured(Listed[i].provider)
    /\ \A j \in DOMAIN Catalogue : Configured(Catalogue[j].provider) => IsListedModel(Catalogue[j])

\* C18: when at least one provider credential is configured, the list is
\* exactly the models of the configured providers (OpenAI, then Google, then
\* Anthropic), so it contains a model only if its provider's credential is
\* configured and all models of every configured provider; when none is
\* configured the list is the single entry gpt-4o-mini of OpenAI named
\* "GPT-4o Mini (API key required)".
C18_ModelsListed ==
  ModelsAnswered =>
    /\ http_response.status = 200
    /\ IF \E p \in Providers : Configured(p)
       THEN /\ Listed = SelectSeq(Catalogue, IsConfiguredModel)
            /\ \A i \in DOMAIN Listed : Configured(Listed[i].provider)
            /\ \A j \in DOMAIN Catalogue :
                 Configured(Catalogue[j].provider) => IsListedModel(Catalogue[j])
       ELSE Listed = << [id |-> "gpt-4o-mini", name |-> "GPT-4o Mini (API key required)",
                         provider |-> "OpenAI"] >>

\* no credential is configured and the list names one OpenAI model
C18_Witness ==
  /\ ModelsAnswered
  /\ \A p \in Providers : ~Configured(p)
  /\ Len(Listed) = 1
  /\ Listed[1].provider = "OpenAI"

CompletionCalls == {i \in DOMAIN provider_calls : provider_calls[i].service = "completion"}
ToolName(i) == get_tools[i].function.name
GenreEnum(i) == get_tools[i].function.parameters.properties.genre.enum

\* C19: get_tools is the ordered sequence of exactly three tool definitions
\* with pairwise distinct names (suggest_character_name, suggest_plot_twist,
\* get_genre_elements), each with a genre enum of exactly the six recognized
\* genres, and whatever requests were served before, every completion call of
\* a generation request is sent exactly that sequence.
C19_ToolSchema ==
  /\ Len(get_tools) = 3
  /\ ToolName(1) = "suggest_character_name"
  /\ ToolName(2) = "suggest_plot_twist"
  /\ ToolName(3) = "get_genre_elements"
  /\ \A i, j \in DOMAIN get_tools : ToolName(i) = ToolName(j) => i = j
  /\ \A i \in DOMAIN get_tools :
       /\ Len(GenreEnum(i)) = 6
       /\ {GenreEnum(i)[k] : k \in DOMAIN GenreEnum(i)}
            = {"fantasy", "sci-fi", "mystery", "romance", "horror", "adventure"}
  /\ (Answered /\ http_request.route = "POST /api/story/generate") =>
       \A i \in CompletionCalls :
         /\ "tools" \in DOMAIN provider_calls[i].kwargs
         /\ provider_calls[i].kwargs.tools = get_tools

\* after a story was saved, a generation request ran a tool and both of its
\* completion calls were sent the three tools
C19_Witness ==
  /\ Answered
  /\ http_request.route = "POST /api/story/generate"
  /\ story_seq > 0
  /\ CompletionCalls = {1, 2}
  /\ Len(provider_calls[2].kwargs.tools) = 3
  /\ Body.success


(***************************************************************************)
(* ConcSpec: several generate_story calls in progress at once on the one   *)
(* LLMService (Flask serves requests on threads).  Each call has its own   *)
(* locals; self.system_prompt is the one object the calls share.  A step   *)
(* is one run of a call between two points where another thread can run.   *)
(***************************************************************************)
\* the calls in progress at once
MaxCallers == 2
Callers == 1 .. MaxCallers

\* what a caller passes: its own prompt, history list, model and genre
CallInputs ==
  { [prompt |-> PlainText("Tell me a story"), history |-> <<>>,
     model |-> "gpt-4o-mini", genre |-> "fantasy", tools |-> get_tools],
    [prompt |-> PlainText("Continue"), history |-> <<AssistantEntry, BareEntry>>,
     model |-> "gpt-4o", genre |-> "noir", tools |-> get_tools],
    [prompt |-> PlainText("Go on"), history |-> <<TextEntry>>,
     model |-> "gpt-4o", genre |-> "horror", tools |-> get_tools] }

ElementsCall ==
  ToolCall("call_1",
           [name |-> "get_genre_elements",
            arguments |-> json_dumps([genre |-> Str(<<"r", "o", "m", "a", "n", "c", "e">>),
                                      element_type |-> Str(<<"i", "t", "e", "m", "s">>)])])
UnboundCall ==
  ToolCall("call_2",
           [name |-> "suggest_plot_twist",
            arguments |-> json_dumps([current_situation |-> Str(<<"h", "e", "r", "o">>)])])

\* the tool calls of a first response: none, one, and one followed by a call
\* the executor raises on
CallToolCallInputs == {<<>>, <<ElementsCall>>, <<ElementsCall, UnboundCall>>}

SpokenBody == [content |-> PlainText("The dragon spoke."), usage |-> Usage(120, 48)]
CallReplies(tool_calls) ==
  {Raises(e) : e \in ErrorInputs} \cup {Returns(Response(SpokenBody, tcs)) : tcs \in tool_calls}

IdleCall ==
  [pc |-> "idle", args |-> NoArgs, history |-> <<>>, messages |-> <<>>,
   response |-> NoResponse, tool_responses |-> <<>>, outcome |-> NoOutcome, sent |-> <<>>]

ConcInit ==
  /\ calls = [c \in Callers |-> IdleCall]
  /\ DbIdle
  /\ foreign_keys = FALSE
  /\ ServiceIdle
  /\ AppIdle
  /\ credentials = NoCredentials
  /\ tool_input = NoCall
  /\ tool_rnd = NoRnd
  /\ tool_output = Pending

\* faulty variant: the directive is appended to the text both names refer to
append_genre_context_shared(content, shared, genre) ==
  [content |-> PlainText(content.string \o genre_context(genre)),
   system_prompt |-> shared \o genre_context(genre)]

\* `messages[0]["content"] += genre_context`: the entry is bound to a new
\* text, self.system_prompt still names the old one
append_genre_context(content, shared, genre) ==
  [content |-> PlainText(content.string \o genre_context(genre)),
   system_prompt |-> shared]

\* the messages of the history and the prompt, as generate_story appends them
history_messages(history, prompt) ==
  [i \in DOMAIN history |->
     [role |-> dict_get(history[i], "role", "user"),
      content |-> dict_get(history[i], "content", PlainText(""))]]
  \o <<[role |-> "user", content |-> prompt]>>

\* the caller's list `history` is handed over and the first message is built
\* from self.system_prompt
CallEnter(c) ==
  /\ calls[c].pc = "idle"
  /\ \E r \in CallInputs :
       calls' = [calls EXCEPT ![c] =
                   [IdleCall EXCEPT !.pc = "genre", !.args = r, !.history = r.history,
                                    !.messages = <<[role |-> "system",
                                                    content |-> PlainText(system_prompt)]>>]]
  /\ UNCHANGED <<tool_vars, llm_vars, app_vars, db_vars>>

\* the genre directive is added to the first message
CallGenre(c) ==
  /\ calls[c].pc = "genre"
  /\ LET added == append_genre_context(calls[c].messages[1].content, system_prompt,
                                       calls[c].args.genre)
     IN  /\ calls' = [calls EXCEPT ![c].pc = "history",
                                   ![c].messages[1].content = added.content]
         /\ system_prompt' = added.system_prompt
  /\ UNCHANGED <<pc, args, messages, response, tool_responses, outcome, completions,
                 executions, tool_vars, app_vars, db_vars>>

\* the loop over history and the prompt; msg.get on an entry that is no dict
\* raises outside the try
CallHistory(c) ==
  /\ calls[c].pc = "history"
  /\ calls' = IF \A i \in DOMAIN calls[c].history : IsDict(calls[c].history[i])
              THEN [calls EXCEPT ![c].pc = "first_completion",
                                 ![c].messages = @ \o history_messages(calls[c].history,
                                                                       calls[c].args.prompt)]
              ELSE [calls EXCEPT ![c].pc = "raised"]
  /\ UNCHANGED <<tool_vars, llm_vars, app_vars, db_vars>>

\* the first completion call and what follows it inside generate_story
CallFirstCompletion(c) ==
  /\ calls[c].pc = "first_completion"
  /\ \E reply \in CallReplies(CallToolCallInputs) :
       LET k == calls[c]
           call == first_call(k.messages, k.args.model, k.args.tools, reply)
       IN  calls' =
             IF reply.raised
             THEN [calls EXCEPT ![c].pc = "done", ![c].sent = Append(@, call),
                                ![c].outcome = failure_outcome(reply.exception, k.args.model)]
             ELSE IF has_tool_calls(reply.value)
             THEN [calls EXCEPT ![c].pc = "tool_loop", ![c].sent = Append(@, call),
                                ![c].response = reply.value]
             ELSE [calls EXCEPT ![c].pc = "done", ![c].sent = Append(@, call),
                                ![c].response = reply.value,
                                ![c].outcome = direct_outcome(reply.value, k.args.model)]
  /\ UNCHANGED <<tool_vars, llm_vars, app_vars, db_vars>>

\* one iteration of the loop of _handle_tool_calls
CallExecuteTool(c) ==
  /\ calls[c].pc = "tool_loop"
  /\ Len(calls[c].tool_responses) < Len(calls[c].response.message.tool_calls)
  /\ LET k == calls[c]
         tool_call == k.response.message.tool_calls[Len(k.tool_responses) + 1]
         func_args == json_loads(tool_call.function.arguments)
     IN  IF func_args.raised
         THEN calls' = [calls EXCEPT ![c].pc = "done",
                                     ![c].outcome = failure_outcome(func_args.exception,
                                                                    k.args.model)]
         ELSE \E rnd \in execute_rnd(tool_call.function.name, func_args.value, SpecDraws) :
                LET result == execute_tool(tool_call.function.name, func_args.value, rnd)
                IN  calls' =
                      IF result.raised
                      THEN [calls EXCEPT ![c].pc = "done",
                                         ![c].outcome = failure_outcome(result.exception,
                                                                        k.args.model)]
                      ELSE [calls EXCEPT ![c].tool_responses =
                                           Append(@, tool_response(tool_call, result.value))]
  /\ UNCHANGED <<tool_vars, llm_vars, app_vars, db_vars>>

\* the messages are extended and the second completion is called
CallSecondCompletion(c) ==
  /\ calls[c].pc = "tool_loop"
  /\ Len(calls[c].tool_responses) = Len(calls[c].response.message.tool_calls)
  /\ \E reply \in CallReplies({<<>>}) :
       LET k == calls[c]
           call == second_call(k.messages, k.response.message, k.tool_responses,
                               k.args.model, k.args.tools, reply)
       IN  calls' = [calls EXCEPT
                       ![c].pc = "done",
                       ![c].messages = extend_messages(@, k.response.message,
                                                       k.tool_responses),
                       ![c].sent = Append(@, call),
                       ![c].outcome = IF reply.raised
                                      THEN failure_outcome(reply.exception, k.args.model)
                                      ELSE tool_outcome(reply.value, k.response.message,
                                                        k.args.model)]
  /\ UNCHANGED <<tool_vars, llm_vars, app_vars, db_vars>>

\* the caller has the outcome (or the exception); the locals are gone
CallReturn(c) ==
  /\ calls[c].pc \in {"done", "raised"}
  /\ calls' = [calls EXCEPT ![c] = IdleCall]
  /\ UNCHANGED <<tool_vars, llm_vars, app_vars, db_vars>>

ConcNext ==
  \E c \in Callers :
    \/ CallEnter(c)
    \/ CallGenre(c)
    \/ CallHistory(c)
    \/ CallFirstCompletion(c)
    \/ CallExecuteTool(c)
    \/ CallSecondCompletion(c)
    \/ CallReturn(c)

ConcSpec == ConcInit /\ [][ConcNext]_vars


(***************************************************************************)
(* Properties of concurrent generate_story calls (ConcSpec).               *)
(***************************************************************************)
\* the conversation a call builds from its own arguments alone
OwnMessages(k) == build_messages(SYSTEM_PROMPT, k.args.prompt, k.args.history, k.args.genre)
\* the conversation after its own tool round
OwnExtended(k) ==
  extend_messages(OwnMessages(k), k.sent[1].reply.value.message, k.tool_responses)
\* the outcome its own provider responses determine
OwnOutcome(k) ==
  IF k.sent[Len(k.sent)].reply.raised
  THEN failure_outcome(k.sent[Len(k.sent)].reply.exception, k.args.model)
  ELSE IF Len(k.sent) = 2
  THEN tool_outcome(k.sent[2].reply.value, k.sent[1].reply.value.message, k.args.model)
  ELSE IF ~has_tool_calls(k.sent[1].reply.value)
  THEN direct_outcome(k.sent[1].reply.value, k.args.model)
  ELSE failure_outcome(TypeError, k.args.model)
CallIndependent(k) ==
  /\ k.pc # "idle" => k.history = k.args.history
  /\ k.pc = "genre" => k.messages = <<[role |-> "system", content |-> PlainText(SYSTEM_PROMPT)]>>
  /\ k.pc \in {"history", "raised"} =>
       k.messages = <<[role |-> "system",
                       content |-> PlainText(SYSTEM_PROMPT \o genre_context(k.args.genre))]>>
  /\ k.pc \in {"first_completion", "tool_loop"} => k.messages = OwnMessages(k)
  /\ k.pc = "done" => k.messages = IF Len(k.sent) = 2 THEN OwnExtended(k) ELSE OwnMessages(k)
  /\ Len(k.sent) >= 1 => k.sent[1].kwargs.messages = OwnMessages(k)
  /\ Len(k.sent) = 2 => k.sent[2].kwargs.messages = OwnExtended(k)
  /\ \A i \in DOMAIN k.tool_responses :
       k.tool_responses[i].tool_call_id = k.sent[1].reply.value.message.tool_calls[i].id
  /\ k.pc = "done" => k.outcome = OwnOutcome(k)

\* C20: for any interleaving of concurrent generate_story calls on the shared
\* LLMService, the service's system_prompt is never modified, the
\* caller-supplied history is not mutated, and each call's messages, the
\* messages it sends to the provider and its outcome are those its own
\* arguments and its own provider responses determine (its system message
\* carries its own genre directive only, no message of another call).
C20_CallsIndependent ==
  /\ system_prompt = SYSTEM_PROMPT
  /\ \A c \in Callers : CallIndependent(calls[c])

\* two calls of different genres are in progress at once: one has run a tool
\* and has its outcome, the other has built its messages
C20_Witness ==
  /\ calls[1].pc = "done"
  /\ Len(calls[1].sent) = 2
  /\ calls[1].outcome.success
  /\ calls[1].args.genre = "noir"
  /\ calls[2].pc = "first_completion"
  /\ calls[2].args.genre = "fantasy"


(***************************************************************************)
(* DbSpec and RelatedSpec: the methods of Database called directly, one    *)
(* call a step.  DbSpec follows the stories table through saves, updates,  *)
(* favourites and deletes; RelatedSpec follows the rows that refer to a    *)
(* story through saves and deletes of stories.                             *)
(***************************************************************************)
\* most rows a table referring to stories is given
MaxRelated == 1
\* the seconds the calls can fall into
Seconds == {0, 1}

TwoWords == Str(<<"o", "n", "c", "e", " ", "u", "p", "o", "n">>)
ThreeWords ==
  Str(<<"a", " ", " ", "d", "r", "a", "g", "o", "n", "\n", "s", "p", "o", "k", "e">>)
OneWord == Str(<<"e", "n", "d">>)

\* the arguments of save_story
DbSaveInputs ==
  { [title |-> PlainText("My Epic Adventure"), content |-> ThreeWords,
     genre |-> "fantasy", model_used |-> "gpt-4o-mini"],
    [title |-> PlainText("Untitled Story"), content |-> TwoWords,
     genre |-> "general", model_used |-> "unknown"] }

\* title and content of update_story: left out, empty, given
DbUpdateInputs ==
  { [title |-> None, content |-> None],
    [title |-> PlainText(""), content |-> Str(<<>>)],
    [title |-> PlainText("A New Title"), content |-> None],
    [title |-> None, content |-> OneWord] }

\* the story_id of a related row: NULL, a stored id, an id never handed out
RefInputs == {None} \cup {Ref(i) : i \in StoryIds}

DbInit ==
  /\ ServiceIdle
  /\ AppIdle
  /\ DbIdle
  /\ calls = NoCalls
  /\ credentials = NoCredentials
  /\ foreign_keys = FALSE
  /\ tool_input = NoCall
  /\ tool_rnd = NoRnd
  /\ tool_output = Pending

\* whether a new connection enforces foreign keys is the default the SQLite
\* library was built with: _get_connection sets no PRAGMA
RelatedInit ==
  /\ ServiceIdle
  /\ AppIdle
  /\ DbIdle
  /\ calls = NoCalls
  /\ credentials = NoCredentials
  /\ foreign_keys \in BOOLEAN
  /\ tool_input = NoCall
  /\ tool_rnd = NoRnd
  /\ tool_output = Pending

\* save_story
DbSaveStory ==
  /\ story_seq < MaxStories
  /\ \E a \in DbSaveInputs :
       LET saved == db_save_story(stories, story_seq, a.title, a.content, a.genre,
                                  a.model_used)
       IN  /\ stories' = saved.rows
           /\ story_seq' = saved.seq
           /\ stamps' = timestamped(saved.rows, stamps, clock)
           /\ saved_ids' = IF saved.result.raised THEN saved_ids
                           ELSE Append(saved_ids, saved.result.value)
           /\ db_result' = [method |-> "save_story", args |-> a, result |-> saved.result]
  /\ UNCHANGED <<clock, images, image_seq, chat_history, chat_seq, foreign_keys,
                 credentials, http_pc, http_request, http_response, provider_calls,
                 db_writes, stream_chunks, stream_events, tool_vars, llm_vars, conc_vars>>

\* the one story DbSpec saves and rewrites
DraftInputs ==
  { [title |-> PlainText("Untitled Story"), content |-> TwoWords,
     genre |-> "general", model_used |-> "unknown"] }

\* save_story of the story that is then rewritten
DbSaveDraft ==
  /\ story_seq < MaxStories
  /\ \E a \in DraftInputs :
       LET saved == db_save_story(stories, story_seq, a.title, a.content, a.genre,
                                  a.model_used)
       IN  /\ stories' = saved.rows
           /\ story_seq' = saved.seq
           /\ stamps' = timestamped(saved.rows, stamps, clock)
           /\ saved_ids' = IF saved.result.raised THEN saved_ids
                           ELSE Append(saved_ids, saved.result.value)
           /\ db_result' = [method |-> "save_story", args |-> a, result |-> saved.result]
  /\ UNCHANGED <<clock, images, image_seq, chat_history, chat_seq, foreign_keys,
                 credentials, http_pc, http_request, http_response, provider_calls,
                 db_writes, stream_chunks, stream_events, tool_vars, llm_vars, conc_vars>>

DbUpdateStory ==
  /\ \E story_id \in StoryIds, a \in DbUpdateInputs :
       LET updated == db_update_story(stories, stamps, story_id, a.title, a.content, clock)
       IN  /\ stories' = updated.rows
           /\ stamps' = updated.stamps
           /\ db_result' = [method |-> "update_story", story_id |-> story_id, args |-> a,
                            result |-> updated.result]
  /\ UNCHANGED <<story_seq, clock, images, image_seq, chat_history, chat_seq, foreign_keys,
                 saved_ids, credentials, http_pc, http_request, http_response,
                 provider_calls, db_writes, stream_chunks, stream_events,
                 tool_vars, llm_vars, conc_vars>>

DbToggleFavorite ==
  /\ \E story_id \in StoryIds :
       LET toggled == db_toggle_favorite(stories, story_id)
       IN  /\ stories' = toggled.rows
           /\ db_result' = [method |-> "toggle_favorite", story_id |-> story_id,
                            result |-> toggled.result]
  /\ UNCHANGED <<story_seq, stamps, clock, images, image_seq, chat_history, chat_seq,
                 foreign_keys, saved_ids, credentials, http_pc, http_request,
                 http_response, provider_calls, db_writes, stream_chunks, stream_events,
                 tool_vars, llm_vars, conc_vars>>

DbDeleteStory ==
  /\ \E story_id \in StoryIds :
       LET deleted == db_delete_story(stories, story_id)
       IN  /\ stories' = deleted.rows
           /\ stamps' = timestamped(deleted.rows, stamps, clock)
           /\ images' = on_delete_cascade(images, story_id, deleted.result, foreign_keys)
           /\ chat_history' =
                on_delete_cascade(chat_history, story_id, deleted.result, foreign_keys)
           /\ db_result' = [method |-> "delete_story", story_id |-> story_id,
                            result |-> deleted.result]
  /\ UNCHANGED <<story_seq, clock, image_seq, chat_seq, foreign_keys, saved_ids,
                 credentials, http_pc, http_request, http_response, provider_calls,
                 db_writes, stream_chunks, stream_events, tool_vars, llm_vars, conc_vars>>

DbSaveChatMessage ==
  /\ chat_seq < MaxRelated
  /\ \E story_id \in RefInputs :
       LET saved == db_save_chat_message(chat_history, chat_seq, stories, foreign_keys,
                                         story_id, "user", PlainText("and then?"))
       IN  /\ chat_history' = saved.rows
           /\ chat_seq' = saved.seq
           /\ db_result' = [method |-> "save_chat_message", story_id |-> story_id,
                            result |-> saved.result]
  /\ UNCHANGED <<stories, story_seq, stamps, clock, images, image_seq, foreign_keys,
                 saved_ids, credentials, http_pc, http_request, http_response,
                 provider_calls, db_writes, stream_chunks, stream_events,
                 tool_vars, llm_vars, conc_vars>>

DbSaveImage ==
  /\ image_seq < MaxRelated
  /\ \E story_id \in RefInputs :
       LET saved == db_save_image(images, image_seq, stories, foreign_keys, story_id,
                                  PlainText("a dragon"), "watercolor",
                                  b64encode("png"))
       IN  /\ images' = saved.rows
           /\ image_seq' = saved.seq
           /\ db_result' = [method |-> "save_image", story_id |-> story_id,
                            result |-> saved.result]
  /\ UNCHANGED <<stories, story_seq, stamps, clock, chat_history, chat_seq, foreign_keys,
                 saved_ids, credentials, http_pc, http_request, http_response,
                 provider_calls, db_writes, stream_chunks, stream_events,
                 tool_vars, llm_vars, conc_vars>>

\* a second passes
DbTick ==
  /\ clock + 1 \in Seconds
  /\ clock' = clock + 1
  /\ UNCHANGED <<stamps, images, image_seq, chat_history, chat_seq, foreign_keys,
                 saved_ids, db_result, tool_vars, llm_vars, app_vars, conc_vars>>

DbNext ==
  \/ DbSaveDraft
  \/ DbUpdateStory
  \/ DbToggleFavorite
  \/ DbDeleteStory
  \/ DbTick

DbSpec == DbInit /\ [][DbNext]_vars

RelatedNext ==
  \/ DbSaveStory
  \/ DbSaveChatMessage
  \/ DbSaveImage
  \/ DbDeleteStory

RelatedSpec == RelatedInit /\ [][RelatedNext]_vars


(***************************************************************************)
(* Properties of the database (RelatedSpec, DbSpec).                       *)
(***************************************************************************)
\* the rows of a table that refer to the story
RelatedRows(children, story_id) ==
  {i \in DOMAIN children : children[i].story_id = Ref(story_id)}
DeleteSucceeded == db_result.method = "delete_story" /\ db_result.result

\* C21 as stated: after delete_story(id) succeeds, no image or chat_history
\* row with story_id = id remains (the chapters table never holds a row).
C21_AsStated ==
  DeleteSucceeded =>
    /\ RelatedRows(images, db_result.story_id) = {}
    /\ RelatedRows(chat_history, db_result.story_id) = {}

\* on a connection that enforces foreign keys the related rows do go, and no
\* row refers to a story that is not stored
CascadeWhenEnforced ==
  foreign_keys =>
    /\ C21_AsStated
    /\ \A i \in DOMAIN images :
         images[i].story_id # None => images[i].story_id.value \in DOMAIN stories
    /\ \A i \in DOMAIN chat_history :
         chat_history[i].story_id # None => chat_history[i].story_id.value \in DOMAIN stories


(***************************************************************************)
(* Properties of the conversation of one generate_story run (Spec).        *)
(***************************************************************************)
Running == pc \in {"first_completion", "tool_loop", "done"}
IsPrefix(s, t) == Len(s) <= Len(t) /\ \A i \in DOMAIN s : t[i] = s[i]
EntryRole(entry) == IF "role" \in DOMAIN entry.items THEN entry.items.role ELSE "user"
EntryContent(entry) ==
  IF "content" \in DOMAIN entry.items THEN entry.items.content ELSE PlainText("")

ToolPath == args.tools # <<>> /\ Returned(1) /\ FirstToolCalls # <<>>
ExecutedTimes(tool_call) ==
  Cardinality({j \in DOMAIN executions : executions[j].id = tool_call.id})
\* the executions so far are the first tool calls of the response, in order
ExecutedInOrder ==
  /\ Len(executions) <= Len(FirstToolCalls)
  /\ \A j \in DOMAIN executions : executions[j].id = FirstToolCalls[j].id

\* C23 as stated: on the tool path the tool calls of the first response are
\* executed one at a time in response order, each exactly once (so once the
\* run is over every one of them has been executed once), and the second
\* completion is issued only after every one of them has been executed and
\* its result attached to the conversation.
C23_AsStated ==
  (Running /\ ToolPath) =>
    /\ ExecutedInOrder
    /\ (pc = "done") => \A i \in DOMAIN FirstToolCalls : ExecutedTimes(FirstToolCalls[i]) = 1
    /\ (Len(completions) = 2) =>
         /\ Len(executions) = Len(FirstToolCalls)
         /\ \A i \in DOMAIN FirstToolCalls :
              completions[2].kwargs.messages[Len(completions[1].kwargs.messages) + 1 + i]
                = [role |-> "tool", content |-> executions[i].result.value,
                   tool_call_id |-> FirstToolCalls[i].id]

\* what holds of the order on every run: one execution a step, in response
\* order, none repeated, all of them before the second completion and none
\* after it
OneAtATimeInOrder ==
  /\ []((Running /\ ToolPath) =>
          /\ ExecutedInOrder
          /\ (Len(completions) = 2) => Len(executions) = Len(FirstToolCalls))
  /\ [][(Running /\ pc' # "idle") =>
          /\ Len(executions') <= Len(executions) + 1
          /\ IsPrefix(executions, executions')
          /\ (Len(completions) = 2) => executions' = executions]_vars


(***************************************************************************)
(* Properties of the image service (AppSpec).                              *)
(***************************************************************************)
ImageFailed ==
  /\ Answered
  /\ http_request.route = "POST /api/story/illustrate"
  /\ ProviderFailed
\* the provider's error text, and the same in lower case
RawError == LastCall.reply.exception.chars
Mentions(needle) == Contains(lower(RawError), needle)
PolicyMessage ==
  "The scene description contains content that cannot be illustrated. Please try a different description."
RateMessage == "Image generation rate limit reached. Please wait a moment and try again."
NotRaised ==
  /\ http_response.status = 200
  /\ DOMAIN Body = {"success", "error"}
  /\ ~Body.success

\* C24 as stated: when the image provider fails, generate_illustration does
\* not raise and returns success=false with the content-policy message if
\* the error text contains the content-policy substring, else the rate-limit
\* message if it contains the rate-limit substring, else an error equal to
\* the raw provider error text unchanged.
C24_AsStated ==
  ImageFailed =>
    /\ NotRaised
    /\ Body.error = IF Mentions(content_policy_violation) THEN PolicyMessage
                    ELSE IF Mentions(rate_limit) THEN RateMessage
                    ELSE Text(RawError)

\* C24: when the image provider fails, generate_illustration does not raise
\* and returns success=false with the content-policy message if the error
\* text, letter case aside, contains "content_policy_violation", else the
\* rate-limit message if it contains "rate_limit", else the provider's error
\* text unchanged after the prefix "Failed to generate image: ".
C24_ImageFailure ==
  ImageFailed =>
    /\ NotRaised
    /\ Body.error = IF Mentions(content_policy_violation) THEN PolicyMessage
                    ELSE IF Mentions(rate_limit) THEN RateMessage
                    ELSE "Failed to generate image: " \o Text(RawError)

\* a provider error that names neither cause
C24_Witness ==
  /\ ImageFailed
  /\ ~Mentions(content_policy_violation)
  /\ ~Mentions(rate_limit)
  /\ Body.error = "Failed to generate image: Request timed out."


(***************************************************************************)
(* ArchiveSpec: the application over a long run of saves, each in a second *)
(* of its own, with deletes and listings in between.                       *)
(***************************************************************************)
\* most stories saved in a run: one more than a listing holds
MaxArchive == 51

ArchiveBody ==
  Dict([title |-> PlainText("My Epic Adventure"), content |-> TwoWords,
        genre |-> "fantasy", model_used |-> "gpt-4o-mini"])

ArchiveInit ==
  /\ credentials = NoCredentials
  /\ AppIdle
  /\ calls = NoCalls
  /\ DbIdle
  /\ foreign_keys = FALSE
  /\ ServiceIdle
  /\ tool_input = NoCall
  /\ tool_rnd = NoRnd
  /\ tool_output = Pending

\* POST /api/story/save; the next request comes a second later
ArchiveSave ==
  /\ http_pc = "idle"
  /\ story_seq < MaxArchive
  /\ LET served == api_save_story(stories, story_seq, ArchiveBody)
     IN  /\ http_request' = Request("POST /api/story/save", ArchiveBody)
         /\ http_response' = served.response
         /\ stories' = served.rows
         /\ stamps' = timestamped(served.rows, stamps, clock)
         /\ story_seq' = served.seq
         /\ db_writes' = served.writes
  /\ clock' = clock + 1
  /\ http_pc' = "responded"
  /\ UNCHANGED <<credentials, provider_calls, stream_chunks, stream_events,
                 images, image_seq, chat_history, chat_seq, foreign_keys,
                 saved_ids, db_result, tool_vars, llm_vars, conc_vars>>

ArchiveNext ==
  \/ ArchiveSave
  \/ DeleteStory
  \/ GetStoryHistory
  \/ Finish

ArchiveSpec == ArchiveInit /\ [][ArchiveNext]_vars

(***************************************************************************)
(* Properties of the listing (ArchiveSpec).                                *)
(***************************************************************************)
HistoryAnswered == Answered /\ http_request.route = "GET /api/story/history"
ListedStories == http_response.body.object.stories
ListedTimes(story_id) ==
  Cardinality({i \in DOMAIN ListedStories : ListedStories[i].id = story_id})

\* C25 as stated: GET /api/story/history returns all currently saved
\* stories, every stored story exactly once and no deleted story, for any
\* number of stored stories.
C25_AsStated ==
  HistoryAnswered =>
    /\ http_response.status = 200
    /\ \A id \in DOMAIN stories : ListedTimes(id) = 1
    /\ \A i \in DOMAIN ListedStories : ListedStories[i].id \in DOMAIN stories

\* what the listing does hold: the stored stories created last, newest
\* first, each once, no deleted one, at most fifty of them
NewestFiftyListed ==
  HistoryAnswered =>
    /\ http_response.status = 200
    /\ Len(ListedStories) = IF Cardinality(DOMAIN stories) < 50
                            THEN Cardinality(DOMAIN stories) ELSE 50
    /\ \A i \in DOMAIN ListedStories :
         /\ ListedStories[i].id \in DOMAIN stories
         /\ ListedTimes(ListedStories[i].id) = 1
         /\ \A id \in DOMAIN stories :
              ListedTimes(id) = 0 =>
                stamps[id].created_at.second <= ListedStories[i].created_at.second
    /\ \A i, j \in DOMAIN ListedStories :
         i < j => ListedStories[j].created_at.second <= ListedStories[i].created_at.second


(***************************************************************************)
(* DispatchSpec: execute_tool called with a tool name and an arguments     *)
(* dict, as the provider may send them: catalog names and a name that is   *)
(* no tool, arguments dicts with and without the optional and the required *)
(* keys, enum arguments inside and outside their enumerations.             *)
(***************************************************************************)
DispatchNames ==
  {"suggest_character_name", "suggest_plot_twist", "get_genre_elements", "summon_dragon"}

StrInputs(values) == {v \in values : IsStr(v)}

DispatchArguments ==
  {[genre |-> genre, gender |-> gender] :
     genre \in StrInputs(GenreInputs), gender \in StrInputs(GenderInputs)}
  \cup
  {[genre |-> genre, gender |-> gender, role |-> Str(<<"h", "e", "r", "o">>)] :
     genre \in StrInputs(GenreInputs), gender \in StrInputs(GenderInputs)}
  \cup
  {[genre |-> genre] : genre \in StrInputs(GenreInputs)}
  \cup
  {[genre |-> genre, current_situation |-> Str(<<"h", "e", "r", "o">>)] :
     genre \in StrInputs(GenreInputs)}
  \cup
  {[genre |-> genre, element_type |-> element_type] :
     genre \in StrInputs(GenreInputs), element_type \in StrInputs(ElementTypeInputs)}
  \cup
  {[gender |-> gender] : gender \in StrInputs(GenderInputs)}

DispatchInit ==
  /\ tool_input \in [tool_name : DispatchNames, arguments : DispatchArguments]
  /\ tool_rnd = NoRnd
  /\ tool_output = Pending
  /\ ServiceIdle
  /\ AppIdle
  /\ calls = NoCalls
  /\ DbIdle
  /\ foreign_keys = FALSE
  /\ credentials = NoCredentials

Dispatch ==
  /\ tool_output = Pending
  /\ \E rnd \in execute_rnd(tool_input.tool_name, tool_input.arguments, Nat) :
       /\ tool_rnd' = rnd
       /\ tool_output' = execute_tool(tool_input.tool_name, tool_input.arguments, rnd)
  /\ UNCHANGED <<tool_input, llm_vars, app_vars, conc_vars, db_vars>>

DispatchNext == Dispatch

DispatchSpec == DispatchInit /\ [][DispatchNext]_vars

(***************************************************************************)
(* Properties of the dispatch (DispatchSpec).                              *)
(***************************************************************************)
\* the arguments fit the parameters of a function of the catalog: every
\* required key is there, every key is a declared property, every value is a
\* string and, where the property has an enumeration, one of its values
FitsSchema(function, arguments) ==
  LET properties == function.parameters.properties
  IN  /\ Range(function.parameters.required) \subseteq DOMAIN arguments
      /\ DOMAIN arguments \subseteq DOMAIN properties
      /\ \A key \in DOMAIN arguments :
           /\ IsStr(arguments[key])
           /\ HasKey(properties[key], "enum") =>
                Text(arguments[key].chars) \in Range(properties[key].enum)

LegalCall ==
  \E i \in DOMAIN get_tools :
    /\ get_tools[i].function.name = tool_input.tool_name
    /\ FitsSchema(get_tools[i].function, tool_input.arguments)

\* C26: every tool call that is legal under the catalog schema (a catalog
\* tool name, all required arguments present, every enum argument one of its
\* enumerated values, optional arguments present or absent) is dispatched by
\* execute_tool to a handler that returns a JSON-encoded text without
\* raising, and the result is never the unknown-tool string.
C26_LegalCallsAnswered ==
  (Called /\ LegalCall) =>
    /\ ~tool_output.raised
    /\ tool_output.value.text = "json"
    /\ HasKey(Payload, "genre")
    /\ Text(tool_input.arguments.genre.chars) = Payload.genre
    /\ tool_output.value # PlainText("Unknown tool: " \o tool_input.tool_name)

\* a legal call for a category the genre does not have: answered with data
C26_Witness ==
  /\ Called
  /\ LegalCall
  /\ tool_input.tool_name = "get_genre_elements"
  /\ Text(tool_input.arguments.genre.chars) = "romance"
  /\ Text(tool_input.arguments.element_type.chars) = "items"
  /\ Payload.error = "Element type 'items' not found"

\* a legal call with the optional argument given
LegalCallWithRole ==
  /\ Called
  /\ LegalCall
  /\ tool_input.tool_name = "suggest_character_name"
  /\ HasKey(tool_input.arguments, "role")
  /\ HasKey(Payload, "role")


(***************************************************************************)
(* Properties of save_story (RelatedSpec).                                 *)
(***************************************************************************)
SaveReturned == db_result.method = "save_story" /\ ~db_result.result.raised

\* C27: across any sequence of save_story and delete_story operations every
\* save_story returns an id that differs from every id an earlier save_story
\* returned, the ids of stories deleted since included, and get_story of the
\* returned id right after the save returns the saved title, content, genre
\* and model.
C27_FreshIds ==
  /\ NoDuplicates(saved_ids)
  /\ SaveReturned =>
       /\ saved_ids # <<>>
       /\ saved_ids[Len(saved_ids)] = db_result.result.value
       /\ LET story == db_get_story(stories, db_result.result.value)
          IN  /\ story # None
              /\ story.id = db_result.result.value
              /\ story.title = db_result.args.title
              /\ story.content = db_result.args.content
              /\ story.genre = db_result.args.genre
              /\ story.model_used = db_result.args.model_used

\* a save after the only stored story was deleted
C27_Witness ==
  /\ SaveReturned
  /\ saved_ids = <<1, 2>>
  /\ DOMAIN stories = {2}
  /\ db_get_story(stories, 2).title = db_result.args.title


(***************************************************************************)
(* Properties of update_story (DbSpec).                                    *)
(***************************************************************************)
WordCountsCurrent ==
  \A id \in DOMAIN stories : stories[id].word_count = word_count(stories[id].content.chars)

\* an update_story call that was given neither a title nor a content
EmptyUpdate(call) ==
  /\ call.method = "update_story"
  /\ ~bool(call.args.title)
  /\ ~bool(call.args.content)

\* C28: after any sequence of save_story, update_story, toggle_favorite and
\* delete_story operations every stored story's word_count is the number of
\* whitespace-separated words of its current content; update_story called
\* with neither a title nor a content returns False and leaves every field
\* of every story, updated_at included, unchanged.
C28_WordCountKept ==
  /\ []WordCountsCurrent
  /\ [][EmptyUpdate(db_result') =>
          /\ db_result'.result = FALSE
          /\ stories' = stories
          /\ stamps' = stamps]_vars

\* the content was rewritten a second after the save, and then an update
\* without title and content was refused
C28_Witness ==
  /\ EmptyUpdate(db_result)
  /\ db_result.args.title = None
  /\ db_result.story_id = 1
  /\ db_result.result = FALSE
  /\ 1 \in DOMAIN stories
  /\ stories[1].content = OneWord
  /\ stories[1].word_count = 1
  /\ stamps[1].updated_at = isoformat(1)
  /\ stamps[1].created_at = current_timestamp(0)


(***************************************************************************)
(* Properties of the text sent for narration (AppSpec).                    *)
(***************************************************************************)
\* the text the request hands to generate_narration
RequestedText == http_request.data.items.text
SentText(i) == provider_calls[i].kwargs.input
Ellipsis == << <<".", 3>> >>

\* C29: the text generate_narration sends to the audio provider is the input
\* unchanged when its length is at most 4000 characters, and otherwise the
\* first 4000 characters followed by "..."; the text sent is never longer
\* than 4003 characters, and no provider call is made at all when no API key
\* is configured.
C29_TextSent ==
  /\ \A i \in SpeechCalls :
       /\ len(RequestedText.runs) <= 4000 => SentText(i) = RequestedText
       /\ len(RequestedText.runs) > 4000 =>
            /\ SentText(i).runs = prefix(RequestedText.runs, 4000) \o Ellipsis
            /\ len(SentText(i).runs) = 4003
       /\ len(SentText(i).runs) <= 4003
  /\ ~bool(credentials.openai) => SpeechCalls = {}

\* a text of 4001 characters was sent as its first 4000 and "...", and a
\* text of exactly 4000 characters goes out whole
C29_Witness ==
  /\ Answered
  /\ http_request.route = "POST /api/story/narrate"
  /\ IsObject(http_request.data)
  /\ HasKey(http_request.data.items, "text")
  /\ RequestedText = LongText
  /\ SpeechCalls = {1}
  /\ SentText(1) = Runs(<< <<"a", 4000>>, <<".", 3>> >>)
  /\ http_response.status = 200

FullTextSentWhole ==
  /\ Answered
  /\ http_request.route = "POST /api/story/narrate"
  /\ IsObject(http_request.data)
  /\ HasKey(http_request.data.items, "text")
  /\ RequestedText = FullText
  /\ SpeechCalls = {1}
  /\ SentText(1) = FullText
====
